---- MODULE Spec2Model ----
(***************************************************************************)
(* Model of the ESP32 lifecycle manager: the GitHub release update         *)
(* pipeline of main/github_update.c (release resolution, signature and     *)
(* firmware transfer, verification, installed-firmware record, update      *)
(* request flag, boot partition selection), and the rapid power-cycle      *)
(* detection with its factory reset in the three implementations the       *)
(* repository holds (app_main of the lifecycle manager, the start-up hook  *)
(* of lifecycle_restart_counter.c, lifecycle_log_post_reset_state).        *)
(*                                                                         *)
(* C strings are sequences of one-character strings; the NULL pointer is   *)
(* the one-element sequence NULLSTR, which no C string equals.             *)
(***************************************************************************)
EXTENDS Integers, Sequences, FiniteSets, TLC

\* ------------------------------------------------------------------------
\* Bounds of the model
\* ------------------------------------------------------------------------

\* update checks (wifi_ready invocations) modelled per behaviour
MaxChecks == 2

\* reboots (restarts and power losses) modelled per behaviour
MaxBoots == 1

\* characters of the strings handed to parse_version
MaxVersionLen == 6

\* ------------------------------------------------------------------------
\* C strings
\* ------------------------------------------------------------------------

NULLSTR == <<"NULL">>

EMPTYSTR == <<>>

DigitChars == <<"0", "1", "2", "3", "4", "5", "6", "7", "8", "9">>

IsDigit(c) == \E d \in 1..10 : DigitChars[d] = c

DigitVal(c) == (CHOOSE d \in 1..10 : DigitChars[d] = c) - 1

IsSpace(c) == c \in {" ", "\t", "\n"}

INT_MAX == 2147483647

INT_MIN == -INT_MAX - 1

\* a - b in 32-bit two's complement; no intermediate leaves the int range
Sub32(a, b) ==
    IF a >= 0 /\ b < 0 /\ a > INT_MAX + b
    THEN (a - INT_MAX) + (-(b + INT_MAX)) - 2
    ELSE IF a < 0 /\ b > 0 /\ a < INT_MIN + b
    THEN (a + INT_MAX) + (INT_MAX - b) + 2
    ELSE a - b

\* index of the first non-blank character of s at or after i
RECURSIVE SkipSpace(_, _)
SkipSpace(s, i) ==
    IF i <= Len(s) /\ IsSpace(s[i]) THEN SkipSpace(s, i + 1) ELSE i

\* the digits of s from i on, accumulated into acc with the sign applied
RECURSIVE ScanDigits(_, _, _, _)
ScanDigits(s, i, acc, neg) ==
    IF i <= Len(s) /\ IsDigit(s[i])
    THEN ScanDigits(s, i + 1,
                    IF neg THEN acc * 10 - DigitVal(s[i])
                           ELSE acc * 10 + DigitVal(s[i]), neg)
    ELSE [val |-> acc, next |-> i]

\* one %d conversion of sscanf at position i of s
ScanInt(s, i) ==
    LET j == SkipSpace(s, i)
        signed == j <= Len(s) /\ s[j] \in {"-", "+"}
        neg == signed /\ s[j] = "-"
        k == IF signed THEN j + 1 ELSE j
    IN  IF k <= Len(s) /\ IsDigit(s[k])
        THEN [ok |-> TRUE] @@ ScanDigits(s, k, 0, neg)
        ELSE [ok |-> FALSE, val |-> 0, next |-> k]

\* sscanf(str, "%d.%d.%d", ...): the number of conversions made and the values
Sscanf3(s) ==
    LET NoScan == [ok |-> FALSE, val |-> 0, next |-> 0]
        Dot(x) == x.ok /\ x.next <= Len(s) /\ s[x.next] = "."
        Count(x) == IF x.ok THEN 1 ELSE 0
    IN  CHOOSE r \in UNION { UNION { {
            [parsed |-> Count(a) + Count(b) + Count(c),
             maj |-> a.val, min |-> b.val, pat |-> c.val] :
              c \in {IF Dot(b) THEN ScanInt(s, b.next + 1) ELSE NoScan} } :
              b \in {IF Dot(a) THEN ScanInt(s, a.next + 1) ELSE NoScan} } :
              a \in {ScanInt(s, 1)} } : TRUE

InvalidVersion == [valid |-> FALSE, maj |-> 0, min |-> 0, pat |-> 0]

parse_version(str) ==
    IF str = NULLSTR THEN InvalidVersion
    ELSE LET s == IF Len(str) > 0 /\ str[1] \in {"v", "V"}
                  THEN Tail(str) ELSE str
             r == Sscanf3(s)
         IN  IF r.parsed < 3 THEN InvalidVersion
             ELSE [valid |-> TRUE, maj |-> r.maj, min |-> r.min, pat |-> r.pat]

cmp_version(aMaj, aMin, aPat, bMaj, bMin, bPat) ==
    IF aMaj # bMaj THEN Sub32(aMaj, bMaj)
    ELSE IF aMin # bMin THEN Sub32(aMin, bMin)
    ELSE Sub32(aPat, bPat)

\* the decimal digits of a natural number, as printf("%d") writes them
RECURSIVE FormatNat(_)
FormatNat(n) ==
    IF n < 10 THEN <<DigitChars[n + 1]>>
    ELSE Append(FormatNat(n \div 10), DigitChars[(n % 10) + 1])

FormatInt(n) ==
    IF n >= 0 THEN FormatNat(n)
    ELSE IF n = INT_MIN THEN <<"-">> \o FormatNat(INT_MAX \div 10) \o <<"8">>
    ELSE <<"-">> \o FormatNat(-n)

\* snprintf(buf, size, "%d.%d.%d", maj, min, pat)
FormatVersion(maj, min, pat, size) ==
    LET full == FormatInt(maj) \o <<".">> \o FormatInt(min) \o <<".">>
                \o FormatInt(pat)
    IN  IF Len(full) < size THEN full ELSE SubSeq(full, 1, size - 1)

\* strlcpy(dst, src, size)
Strlcpy(src, size) ==
    IF Len(src) < size THEN src ELSE SubSeq(src, 1, size - 1)

INSTALLED_VER_MAX_LEN == 32

\* ------------------------------------------------------------------------
\* Flash layout, images, signature records
\* ------------------------------------------------------------------------

FACTORY == "factory"

\* the OTA application partitions in subtype order (ota_0, ota_1)
OtaLabels == <<"ota_0", "ota_1">>

OtaSlots == {OtaLabels[i] : i \in 1..Len(OtaLabels)}

Slots == {FACTORY} \cup OtaSlots

NOPART == "NULL"

\* a partition that holds no valid application image
NoImage == [valid |-> FALSE, ver |-> EMPTYSTR, bytes |-> <<>>]

V_1_0_0 == <<"1", ".", "0", ".", "0">>

V_1_2_0 == <<"1", ".", "2", ".", "0">>

Tag_v1_2_0 == <<"v">> \o V_1_2_0

Tag_garbage == <<"x">>

\* the lifecycle manager image flashed to the factory partition
LcmImage == [valid |-> TRUE, ver |-> V_1_0_0, bytes |-> <<9, 9>>]

App_1_0_0 == [valid |-> TRUE, ver |-> V_1_0_0, bytes |-> <<5, 5>>]

\* firmware images a release can serve as main.bin
ImgA == [valid |-> TRUE, ver |-> V_1_2_0, bytes |-> <<1, 2, 3>>]

ImgB == [valid |-> TRUE, ver |-> V_1_2_0, bytes |-> <<1, 2>>]

ImgC == [valid |-> TRUE, ver |-> EMPTYSTR, bytes |-> <<7, 7, 7>>]

Images == {ImgA, ImgB, ImgC}

\* SHA-384 as an ideal hash: equal digests exactly for equal byte strings
Sha384(bytes) == [alg |-> "sha384", of |-> bytes]

\* the four bytes generate_sig.sh appends: the length, big-endian
BE32(n) == <<(n \div 16777216) % 256, (n \div 65536) % 256,
             (n \div 256) % 256, n % 256>>

\* the length fields a served signature file may carry
SigLenBytes == {BE32(2), BE32(3), <<3, 0, 0, 0>>}

SIG_SIZE == 52

\* the signature files a server may serve (digest, length field, body
\* size): every digest with every length field in a body of 52 bytes, and
\* the signature of ImgA in an empty, a short and a long body
SigBodies ==
    [digest : {Sha384(ImgA.bytes), Sha384(ImgC.bytes)},
     lenbytes : SigLenBytes, body_len : {SIG_SIZE}]
    \cup [digest : {Sha384(ImgA.bytes)},
          lenbytes : {BE32(Len(ImgA.bytes))},
          body_len : {0, SIG_SIZE - 1, SIG_SIZE + 1}]

NoSig == [digest |-> Sha384(<<>>), lenbytes |-> <<0, 0, 0, 0>>]

\* expected_len as github_update_from_urls decodes it from sig[48..51]
ExpectedLen(sig) ==
    sig.lenbytes[1] * 16777216 + sig.lenbytes[2] * 65536
    + sig.lenbytes[3] * 256 + sig.lenbytes[4]

\* esp_partition_read of the first len bytes of the image in a partition
PartitionRead(part_bytes, len) ==
    SubSeq(part_bytes, 1, IF len <= Len(part_bytes) THEN len
                          ELSE Len(part_bytes))

\* the digest of the first len bytes of a partition
partition_sha384(part_bytes, len) == Sha384(PartitionRead(part_bytes, len))

\* ------------------------------------------------------------------------
\* Releases
\* ------------------------------------------------------------------------

\* one release of the feed: tag_name (NULLSTR when it is no string), the
\* prerelease flag, and whether main.bin and main.bin.sig are among the assets
Release(tag, pre, fw, sig) ==
    [tag |-> tag, prerelease |-> pre, fw |-> fw, sig |-> sig]

NoRelease == Release(NULLSTR, FALSE, FALSE, FALSE)

ReleaseSet ==
    { Release(V_1_0_0, FALSE, TRUE, TRUE),
      Release(Tag_v1_2_0, FALSE, TRUE, TRUE),
      Release(Tag_v1_2_0, TRUE, TRUE, TRUE),
      Release(Tag_garbage, FALSE, TRUE, TRUE),
      Release(NULLSTR, FALSE, TRUE, TRUE),
      Release(Tag_v1_2_0, FALSE, TRUE, FALSE) }

\* the releases a list response may hold
ListReleases ==
    { Release(V_1_0_0, FALSE, TRUE, TRUE),
      Release(Tag_v1_2_0, FALSE, TRUE, TRUE),
      Release(Tag_v1_2_0, TRUE, TRUE, TRUE) }

\* a response of the release API: unusable (transport or parse failure), one
\* release object, or an array of releases
JsonError == [kind |-> "error", rel |-> NoRelease, list |-> <<>>]

JsonObject(r) == [kind |-> "object", rel |-> r, list |-> <<>>]

JsonArray(l) == [kind |-> "array", rel |-> NoRelease, list |-> l]

JsonArrays ==
    {JsonArray(<<>>)} \cup {JsonArray(<<r>>) : r \in ListReleases}
    \cup {JsonArray(<<r1, r2>>) : r1 \in ListReleases, r2 \in ListReleases}

JsonResponses == {JsonError} \cup {JsonObject(r) : r \in ReleaseSet} \cup JsonArrays

\* index of the first release of list from i on, whatever its flag, or 0
FirstEntry(list, i) == IF i > Len(list) THEN 0 ELSE i

\* index of the first release of list whose prerelease flag is not true, or 0
RECURSIVE FirstStable(_, _)
FirstStable(list, i) ==
    IF i > Len(list) THEN 0
    ELSE IF ~list[i].prerelease THEN i
    ELSE FirstStable(list, i + 1)

\* release selection of github_update_if_needed: json1 answers the first
\* request, json2 the fall-back request for the full list
SelectRelease(prerelease, json1, json2) ==
    IF json1.kind = "error" THEN [ok |-> FALSE, rel |-> NoRelease]
    ELSE IF prerelease
    THEN IF json1.kind # "array" \/ Len(json1.list) = 0
         THEN [ok |-> FALSE, rel |-> NoRelease]
         ELSE [ok |-> TRUE, rel |-> json1.list[1]]
    ELSE LET first ==
                 IF json1.kind = "array"
                 THEN IF FirstStable(json1.list, 1) = 0 THEN <<>>
                      ELSE <<json1.list[FirstStable(json1.list, 1)]>>
                 ELSE IF json1.rel.prerelease THEN <<>> ELSE <<json1.rel>>
         IN  IF first # <<>> THEN [ok |-> TRUE, rel |-> first[1]]
             ELSE IF json2.kind # "array" \/ Len(json2.list) = 0
                     \/ FirstStable(json2.list, 1) = 0
             THEN [ok |-> FALSE, rel |-> NoRelease]
             ELSE [ok |-> TRUE, rel |-> json2.list[FirstStable(json2.list, 1)]]

\* ------------------------------------------------------------------------
\* Key-value store (NVS) operations.  A stored key is a one-element
\* sequence holding its value; an absent key is the empty sequence.
\* nvs_set_* writes through to flash, so a value set before a later call
\* fails stays written.
\* ------------------------------------------------------------------------

NvsFaults == {"none", "open", "set_ver", "set_part", "commit"}

store_installed_version_if_needed(nvs_ver, nvs_part, version, label, fault) ==
    IF version = NULLSTR \/ version = EMPTYSTR
    THEN [ver |-> nvs_ver, part |-> nvs_part, err |-> "ESP_ERR_INVALID_ARG"]
    ELSE IF fault = "open"
    THEN [ver |-> nvs_ver, part |-> nvs_part, err |-> "ESP_FAIL"]
    ELSE
    LET truncated == Strlcpy(version, INSTALLED_VER_MAX_LEN)
        version_changed == nvs_ver # <<truncated>>
        withLabel == label # NOPART /\ label # ""
        label_changed == withLabel /\ nvs_part # <<label>>
    IN  IF version_changed /\ fault = "set_ver"
        THEN [ver |-> nvs_ver, part |-> nvs_part, err |-> "ESP_FAIL"]
        ELSE IF label_changed /\ fault = "set_part"
        THEN [ver |-> <<truncated>>, part |-> nvs_part, err |-> "ESP_FAIL"]
        ELSE [ver |-> <<truncated>>,
              part |-> IF withLabel THEN <<label>> ELSE nvs_part,
              err |-> IF (version_changed \/ label_changed) /\ fault = "commit"
                      THEN "ESP_FAIL" ELSE "ESP_OK"]

load_installed_version(nvs_ver, read_ok) ==
    IF read_ok /\ nvs_ver # <<>> THEN [found |-> TRUE, version |-> nvs_ver[1]]
    ELSE [found |-> FALSE, version |-> EMPTYSTR]

load_installed_partition_label(nvs_part, read_ok) ==
    IF read_ok /\ nvs_part # <<>> THEN [found |-> TRUE, label |-> nvs_part[1]]
    ELSE [found |-> FALSE, label |-> ""]

FlagFaults == {"none", "open", "set", "commit"}

read_update_request_flag(nvs_flag, read_ok) ==
    read_ok /\ nvs_flag # <<>> /\ nvs_flag[1] # 0

write_update_request_flag(nvs_flag, value, fault) ==
    IF fault = "open" THEN [flag |-> nvs_flag, err |-> "ESP_FAIL"]
    ELSE IF nvs_flag = <<IF value THEN 1 ELSE 0>>
    THEN [flag |-> nvs_flag, err |-> "ESP_OK"]
    ELSE IF fault = "set"
    THEN [flag |-> nvs_flag, err |-> "ESP_FAIL"]
    ELSE [flag |-> <<IF value THEN 1 ELSE 0>>,
          err |-> IF fault = "commit" THEN "ESP_FAIL" ELSE "ESP_OK"]

\* ------------------------------------------------------------------------
\* Partition table and boot selection (esp_ota_ops)
\* ------------------------------------------------------------------------

OtaIndex(label) == CHOOSE i \in 1..Len(OtaLabels) : OtaLabels[i] = label

\* esp_ota_get_next_update_partition(NULL): the OTA partition after the
\* running one, or the first OTA partition when the running one is not OTA
esp_ota_get_next_update_partition(run) ==
    IF Len(OtaLabels) = 0 THEN NOPART
    ELSE IF run \in OtaSlots
    THEN OtaLabels[(OtaIndex(run) % Len(OtaLabels)) + 1]
    ELSE OtaLabels[1]

\* esp_partition_find_first(ESP_PARTITION_TYPE_APP, ANY, label)
esp_partition_find_first(label) ==
    IF label \in Slots THEN label ELSE NOPART

RECURSIVE FindFrom(_, _, _, _, _)
FindFrom(slots, i, maj, min, pat) ==
    IF i > Len(OtaLabels) THEN NOPART
    ELSE IF /\ slots[OtaLabels[i]].valid
            /\ parse_version(slots[OtaLabels[i]].ver)
                 = [valid |-> TRUE, maj |-> maj, min |-> min, pat |-> pat]
    THEN OtaLabels[i]
    ELSE FindFrom(slots, i + 1, maj, min, pat)

find_partition_for_version(slots, maj, min, pat) ==
    FindFrom(slots, 1, maj, min, pat)

\* the partition set_boot_partition_for_installed_firmware aims at: the one
\* named by the stored label when that is an OTA partition, else the first
\* OTA partition whose image descriptor carries the version
InstalledTarget(slots, nvs_part, read_ok, maj, min, pat) ==
    LET l == load_installed_partition_label(nvs_part, read_ok)
        byLabel == IF l.found THEN esp_partition_find_first(l.label) ELSE NOPART
    IN  IF byLabel \in OtaSlots THEN byLabel
        ELSE find_partition_for_version(slots, maj, min, pat)

\* esp_ota_set_boot_partition succeeds only for a partition holding a valid
\* image, and only when the boot-pointer region can be written
SetBootOk(slots, target, flash_ok) == flash_ok /\ slots[target].valid

\* set_boot_partition_for_installed_firmware once the target is located:
\* nothing is written when the boot pointer already designates it
\* the function with the outcome of the unchanged path reported as a change
SetBootReportsChange(slots, boot, target, flash_ok) ==
    IF target = NOPART
    THEN [err |-> "ESP_ERR_NOT_FOUND", changed |-> FALSE, boot |-> boot,
          wrote |-> FALSE]
    ELSE IF boot = target
    THEN [err |-> "ESP_OK", changed |-> TRUE, boot |-> boot, wrote |-> FALSE]
    ELSE IF SetBootOk(slots, target, flash_ok)
    THEN [err |-> "ESP_OK", changed |-> TRUE, boot |-> target, wrote |-> TRUE]
    ELSE [err |-> "ESP_FAIL", changed |-> FALSE, boot |-> boot, wrote |-> TRUE]

\* the function without the comparison against the current boot partition
SetBootWithoutCompare(slots, boot, target, flash_ok) ==
    IF target = NOPART
    THEN [err |-> "ESP_ERR_NOT_FOUND", changed |-> FALSE, boot |-> boot,
          wrote |-> FALSE]
    ELSE IF SetBootOk(slots, target, flash_ok)
    THEN [err |-> "ESP_OK", changed |-> TRUE, boot |-> target, wrote |-> TRUE]
    ELSE [err |-> "ESP_FAIL", changed |-> FALSE, boot |-> boot, wrote |-> TRUE]

set_boot_partition_for_installed_firmware(slots, boot, target, flash_ok) ==
    IF target = NOPART
    THEN [err |-> "ESP_ERR_NOT_FOUND", changed |-> FALSE, boot |-> boot,
          wrote |-> FALSE]
    ELSE IF boot = target
    THEN [err |-> "ESP_OK", changed |-> FALSE, boot |-> boot, wrote |-> FALSE]
    ELSE IF SetBootOk(slots, target, flash_ok)
    THEN [err |-> "ESP_OK", changed |-> TRUE, boot |-> target, wrote |-> TRUE]
    ELSE [err |-> "ESP_FAIL", changed |-> FALSE, boot |-> boot, wrote |-> TRUE]

\* the partition the bootloader starts: the boot pointer's when it holds a
\* valid image, else the factory partition
BootTarget(slots, boot) == IF slots[boot].valid THEN boot ELSE FACTORY

\* ------------------------------------------------------------------------
\* Rapid power-cycle detection
\* ------------------------------------------------------------------------

\* qualifying resets in a row modelled per behaviour
MaxStreak == 14

RESTART_COUNTER_THRESHOLD_MIN == 10

RESTART_COUNTER_THRESHOLD_MAX == 12

CONFIG_LCM_FACTORY_RESET_TRIGGER_COUNT == 10

\* the implementations of the detection found in the repository: the
\* lifecycle manager's app_main, the start-up hook of
\* lifecycle_restart_counter.c, and lifecycle_log_post_reset_state
Variants == {"main", "bootstrap", "component"}

QualifyingReasons == {"ESP_RST_POWERON", "ESP_RST_EXT"}

OtherReasons == {"ESP_RST_SW", "ESP_RST_PANIC", "ESP_RST_DEEPSLEEP"}

reason_counts_towards_threshold(reason) == reason \in QualifyingReasons

\* the persisted restart count as the load functions read it: an absent key
\* reads as 0. The counts modelled stay far below UINT32_MAX, the value the
\* classifiers replace by 0 before they add 1
restart_counter_load(nvs) == IF nvs = <<>> THEN 0 ELSE nvs[1]

\* handle_power_cycle_sequence with the maximum applied as a cap
HandlePowerCycleSaturating(reason, nvs, value) ==
    IF ~reason_counts_towards_threshold(reason)
    THEN [nvs |-> IF value # 0 THEN <<0>> ELSE nvs, value |-> 0,
          reached |-> 0, timer |-> FALSE, next |-> "idle"]
    ELSE LET count == value + 1
             capped == IF count > RESTART_COUNTER_THRESHOLD_MAX
                       THEN RESTART_COUNTER_THRESHOLD_MAX ELSE count
         IN  IF capped >= RESTART_COUNTER_THRESHOLD_MIN
             THEN [nvs |-> <<capped>>, value |-> capped, reached |-> capped,
                   timer |-> FALSE, next |-> "countdown"]
             ELSE [nvs |-> <<capped>>, value |-> capped, reached |-> capped,
                   timer |-> TRUE, next |-> "idle"]

\* handle_power_cycle_sequence that leaves the count of a boot whose reset
\* does not qualify
HandlePowerCycleKeeping(reason, nvs, value) ==
    IF ~reason_counts_towards_threshold(reason)
    THEN [nvs |-> nvs, value |-> value, reached |-> 0, timer |-> FALSE,
          next |-> "idle"]
    ELSE HandlePowerCycleSaturating(reason, nvs, value)

\* handle_power_cycle_sequence that arms no timer below the minimum
HandlePowerCycleNoTimer(reason, nvs, value) ==
    [HandlePowerCycleSaturating(reason, nvs, value) EXCEPT !.timer = FALSE]

\* handle_power_cycle_sequence that starts no countdown
HandlePowerCycleNoCountdown(reason, nvs, value) ==
    [HandlePowerCycleSaturating(reason, nvs, value) EXCEPT
         !.next = "idle"]

\* handle_power_cycle_sequence up to its return or its countdown: the count
\* persisted, the count in RAM, the count the boot reached, whether the
\* stable-window timer is armed, and where the code stands
handle_power_cycle_sequence(reason, nvs, value) ==
    IF ~reason_counts_towards_threshold(reason)
    THEN [nvs |-> IF value # 0 THEN <<0>> ELSE nvs, value |-> 0,
          reached |-> 0, timer |-> FALSE, next |-> "idle"]
    ELSE LET count == value + 1
         IN  IF count > RESTART_COUNTER_THRESHOLD_MAX
             THEN [nvs |-> <<0>>, value |-> 0, reached |-> count,
                   timer |-> TRUE, next |-> "idle"]
             ELSE IF count >= RESTART_COUNTER_THRESHOLD_MIN
             THEN [nvs |-> <<count>>, value |-> count, reached |-> count,
                   timer |-> FALSE, next |-> "countdown"]
             ELSE [nvs |-> <<count>>, value |-> count, reached |-> count,
                   timer |-> TRUE, next |-> "idle"]

\* lifecycle_restart_counter_bootstrap that starts again from 0 above the
\* maximum
BootstrapWrapping(reason, nvs, running_is_factory) ==
    LET stored_count == restart_counter_load(nvs)
    IN  IF ~(reason = "ESP_RST_POWERON" \/ reason = "ESP_RST_EXT")
        THEN [nvs |-> IF stored_count # 0 THEN <<0>> ELSE nvs, value |-> 0,
              reached |-> 0, to_factory |-> FALSE]
        ELSE LET new_count ==
                     IF stored_count + 1 > RESTART_COUNTER_THRESHOLD_MAX
                     THEN 0 ELSE stored_count + 1
             IN  [nvs |-> <<new_count>>, value |-> new_count,
                  reached |-> stored_count + 1,
                  to_factory |->
                      /\ new_count >= RESTART_COUNTER_THRESHOLD_MIN
                      /\ ~running_is_factory]

\* lifecycle_restart_counter_bootstrap: the count persisted, the count in
\* RAM, the count reached, and whether the boot pointer is set to the
\* factory partition and the device restarted
lifecycle_restart_counter_bootstrap(reason, nvs, running_is_factory) ==
    LET stored_count == restart_counter_load(nvs)
    IN  IF ~(reason = "ESP_RST_POWERON" \/ reason = "ESP_RST_EXT")
        THEN [nvs |-> IF stored_count # 0 THEN <<0>> ELSE nvs, value |-> 0,
              reached |-> 0, to_factory |-> FALSE]
        ELSE LET new_count ==
                     IF stored_count + 1 > RESTART_COUNTER_THRESHOLD_MAX
                     THEN RESTART_COUNTER_THRESHOLD_MAX
                     ELSE stored_count + 1
             IN  [nvs |-> <<new_count>>, value |-> new_count,
                  reached |-> new_count,
                  to_factory |->
                      /\ new_count >= RESTART_COUNTER_THRESHOLD_MIN
                      /\ ~running_is_factory]

\* lifecycle_log_post_reset_state that starts the countdown at the trigger
\* count only
LogPostResetStateExact(reason, nvs) ==
    LET counter == restart_counter_load(nvs)
    IN  IF ~reason_counts_towards_threshold(reason)
        THEN [nvs |-> IF counter # 0 THEN <<0>> ELSE nvs, value |-> 0,
              reached |-> 0, timer |-> FALSE, next |-> "idle"]
        ELSE LET c == counter + 1
             IN  IF c = CONFIG_LCM_FACTORY_RESET_TRIGGER_COUNT
                 THEN [nvs |-> <<c>>, value |-> c, reached |-> c,
                       timer |-> FALSE, next |-> "countdown"]
                 ELSE [nvs |-> <<c>>, value |-> c, reached |-> c,
                       timer |-> TRUE, next |-> "idle"]

\* lifecycle_log_post_reset_state up to its return or its countdown
lifecycle_log_post_reset_state(reason, nvs) ==
    LET counter == restart_counter_load(nvs)
    IN  IF ~reason_counts_towards_threshold(reason)
        THEN [nvs |-> IF counter # 0 THEN <<0>> ELSE nvs, value |-> 0,
              reached |-> 0, timer |-> FALSE, next |-> "idle"]
        ELSE LET c == counter + 1
             IN  IF c >= CONFIG_LCM_FACTORY_RESET_TRIGGER_COUNT
                 THEN [nvs |-> <<c>>, value |-> c, reached |-> c,
                       timer |-> FALSE, next |-> "countdown"]
                 ELSE [nvs |-> <<c>>, value |-> c, reached |-> c,
                       timer |-> TRUE, next |-> "idle"]

\* erase_ota_app_partitions that erases the running slot as well
EraseEveryOtaSlot(slots, run, pending) ==
    [slot |-> [s \in Slots |-> IF s \in OtaSlots THEN NoImage ELSE slots[s]],
     pending |-> NOPART]

\* erase_ota_app_partitions: every OTA slot but the running one is erased,
\* the running one is recorded in the marker
erase_ota_app_partitions(slots, run, pending) ==
    [slot |-> [s \in Slots |-> IF s \in OtaSlots /\ s # run THEN NoImage
                               ELSE slots[s]],
     pending |-> IF run \in OtaSlots THEN run ELSE NOPART]

\* finalize_deferred_factory_reset: the slot the marker names is erased and
\* the marker cleared unless the code runs from that slot
finalize_deferred_factory_reset(slots, run, pending) ==
    IF pending \notin OtaSlots THEN [slot |-> slots, pending |-> pending]
    ELSE IF run = pending THEN [slot |-> slots, pending |-> pending]
    ELSE [slot |-> [slots EXCEPT ![pending] = NoImage], pending |-> NOPART]

\* restart_counter_store(count) as handle_power_cycle_sequence calls it: h
\* is the outcome of the sequence with the write taken; when the write
\* fails (nvs_open, nvs_set_u32 or nvs_commit) the stored count stays, the
\* copy in RAM is set all the same, and the returned error is dropped by the
\* caller. A count above the maximum is followed by restart_counter_reset,
\* which writes 0
restart_counter_store(nvs, h, store_ok) ==
    IF store_ok \/ h.reached = 0 \/ h.value = 0 THEN h.nvs ELSE nvs

\* the regions a factory reset erases: the key-value store, the boot-pointer
\* region (otadata) and the OTA slots
Regions == {"nvs", "otadata"} \cup OtaSlots

\* what can go wrong with one region: the erase call returns an error, or it
\* returns ESP_OK and verify_partition_erased finds a byte that is not 0xFF.
\* Either way the region keeps data, and either way the code only logs
EraseFaults == {"none", "erase", "verify"}

\* clear_nvs_storage reads nothing back
FaultChoices == {f \in [Regions -> EraseFaults] : f["nvs"] # "verify"}

NoFaults == [r \in Regions |-> "none"]

\* a factory_reset_task that gives up at the first failure: nothing after
\* the key-value store is tried and the device is not restarted
FactoryResetAborting(slots, run, pending, fault) ==
    IF \A r \in Regions : fault[r] = "none"
    THEN [nvs_erased |-> TRUE, otadata_erased |-> TRUE,
          slot |-> erase_ota_app_partitions(slots, run, pending).slot,
          pending |-> erase_ota_app_partitions(slots, run, pending).pending,
          attempted |-> {"nvs", "otadata"} \cup (OtaSlots \ {run}),
          failed |-> {},
          next |-> "restart"]
    ELSE [nvs_erased |-> FALSE, otadata_erased |-> FALSE,
          slot |-> slots, pending |-> pending,
          attempted |-> {"nvs"}, failed |-> {"nvs"},
          next |-> "idle"]

\* factory_reset_task up to its esp_restart: clear_nvs_storage,
\* erase_otadata_partition, erase_ota_app_partitions. A region whose erasure
\* fails keeps its contents; the next region is tried all the same, and the
\* task goes on to its restart
factory_reset_task(slots, run, pending, fault) ==
    [nvs_erased |-> fault["nvs"] = "none",
     otadata_erased |-> fault["otadata"] = "none",
     slot |-> [s \in Slots |->
                 IF s \in OtaSlots /\ fault[s] # "none" THEN slots[s]
                 ELSE erase_ota_app_partitions(slots, run, pending).slot[s]],
     pending |-> erase_ota_app_partitions(slots, run, pending).pending,
     attempted |-> {"nvs", "otadata"} \cup (OtaSlots \ {run}),
     failed |-> {r \in {"nvs", "otadata"} \cup (OtaSlots \ {run}) :
                   fault[r] # "none"},
     next |-> "restart"]

\* verify_factory_reset_cleanup: the value of
\* factory_reset_verification_pending it leaves. An erased boot-pointer
\* region is one that makes the loader start the factory partition
verify_factory_reset_cleanup(slots, boot, pending, verification_pending) ==
    IF ~verification_pending THEN FALSE
    ELSE IF pending \in OtaSlots THEN TRUE
    ELSE ~(boot = FACTORY /\ \A s \in OtaSlots : slots[s] = NoImage)

\* ------------------------------------------------------------------------
\* State
\* ------------------------------------------------------------------------

VARIABLES
    \* persistent: key-value store, boot pointer, partition contents
    nvs_installed_ver, nvs_installed_part, nvs_do_update, boot_partition, slot,
    \* the partition executing, and the position of the code running in it
    running, pc,
    \* locals of github_update_if_needed / github_update_from_urls
    update_requested, cur, installed_version, release, rel, sig, sig_len,
    update_part, partition_changed, ret,
    \* history: the persistent state when the running check began, the size
    \* of the signature body served, whether the image of this attempt passed
    \* both comparisons, the partition the attempt wrote, the partition
    \* set_boot_partition_for_installed_firmware located, whether the check
    \* called esp_ota_set_boot_partition, how the last check ended, and the
    \* counters that bound the behaviour
    before, sig_body_len, verified, written, boot_target, boot_written,
    ended, checks, boots,
    \* rapid power-cycle detection: the implementation built into the
    \* images, the persisted restart count, its copy in RAM, whether the
    \* stable-window timer is armed, the reason of the last reset, the
    \* position of the start-up code, the deferred-erase marker in RTC
    \* memory and the registered factory-reset callback
    variant, nvs_restart_count, restart_counter_value, restart_counter_timer,
    reset_reason, opc, factory_reset_pending_ota_subtype, s_factory_reset_cb,
    \* history: the qualifying resets in a row, the count this boot's
    \* classification stored, the callback executions of this boot, and the
    \* slot a factory reset left for a later boot to erase
    streak, reached, cb_runs, deferred,
    \* the marker in RTC memory that asks the next boots to verify a factory
    \* reset, and history: the regions the last factory reset tried to erase
    \* and those whose erasure failed
    factory_reset_verification_pending, attempted, failed,
    \* the "Factory reset in ..." lines this boot's countdown has logged, one
    \* for each second waited
    ticks,
    \* the argument handed to a function that is studied on its own, and the
    \* result it returned (empty before the call)
    call_arg, call_res,
    \* the reset counters that run before the lifecycle manager: the one
    \* studied (lcm_fast_reset_init, lcm_reset_sentry or the loader's
    \* bootloader_after_init), the reason of the last reset, the reading of
    \* the clock the counter consults on this boot, and the position of the
    \* start-up code
    unit, boot_reason, boot_now, upc,
    \* lcm_fast_reset: the keys count and armed of namespace lcm_rst, and
    \* whether the stable-window timer is armed
    lcm_rst_count, lcm_rst_armed, lcm_rst_timer,
    \* lcm_reset_sentry: the keys hw_rst_cnt and hw_rst_t0 of namespace lcm
    hw_rst_cnt, hw_rst_t0,
    \* bootloader_after_init: the record in the lcm_state sector
    lcm_state,
    \* history: the real time from the previous reset to this one, the real
    \* time since the first boot of the run of boots the window admits, the
    \* length of that run, the boots since the last hand-over to the factory
    \* image, and whether this boot handed over
    since_prev, since_first, run_len, boots_since_wipe, wiped,
    \* download_signature studied on its own: its position, the HTTP client
    \* handle, the redirects followed, the last status read, the bytes
    \* stored through out_len and the value returned
    dl_pc, client, redirects, status, out_len, dl_err,
    \* the lifecycle button: esp_timer_get_time(), the level of the pin
    \* (TRUE while the button is held down), and the statics of button_task
    btn_now, btn_down, s_press_start_time_us, s_last_release_time_us,
    s_press_count, s_waiting_for_second_press, s_double_press_detected,
    \* history: the presses completed, each with the times it began and
    \* ended, and the events dispatched
    presses, events

persistent == <<nvs_installed_ver, nvs_installed_part, nvs_do_update,
                boot_partition, slot>>

\* the locals that live as long as one check
frame == <<update_requested, cur, installed_version, release, rel, sig,
           sig_len, update_part, partition_changed, sig_body_len>>

history == <<before, verified, written, boot_target, boot_written>>

\* the state of the rapid power-cycle detection
orch == <<variant, nvs_restart_count, restart_counter_value,
          restart_counter_timer, reset_reason, opc,
          factory_reset_pending_ota_subtype, s_factory_reset_cb,
          streak, reached, cb_runs, deferred,
          factory_reset_verification_pending, attempted, failed, ticks>>

\* a function call studied on its own
calc == <<call_arg, call_res>>

\* a reset counter studied on its own
counters == <<unit, boot_reason, boot_now, upc, lcm_rst_count,
              lcm_rst_armed, lcm_rst_timer, hw_rst_cnt, hw_rst_t0, lcm_state,
              since_prev, since_first, run_len, boots_since_wipe, wiped>>

\* a call of download_signature studied on its own
dl == <<dl_pc, client, redirects, status, out_len, dl_err>>

\* the button task studied on its own
btn == <<btn_now, btn_down, s_press_start_time_us, s_last_release_time_us,
         s_press_count, s_waiting_for_second_press, s_double_press_detected,
         presses, events>>

units == <<counters, dl, btn>>

vars == <<persistent, running, pc, frame, ret, history, ended, checks, boots,
          orch, calc, units>>

\* the rapid power-cycle detection has classified a boot that followed no
\* qualifying reset, and nothing of it is pending
DetectionAtRest ==
    /\ variant = "main"
    /\ nvs_restart_count = <<>>
    /\ restart_counter_value = 0
    /\ restart_counter_timer = FALSE
    /\ reset_reason = "ESP_RST_SW"
    /\ opc = "idle"
    /\ factory_reset_pending_ota_subtype = NOPART
    /\ s_factory_reset_cb = FALSE
    /\ streak = 0
    /\ reached = 0
    /\ cb_runs = 0
    /\ deferred = NOPART
    /\ factory_reset_verification_pending = FALSE
    /\ attempted = {}
    /\ failed = {}
    /\ ticks = 0

\* no function is studied on its own
NoCall ==
    /\ call_arg = <<>>
    /\ call_res = <<>>

\* the record of the lcm_state sector when it holds none that loads
NoState == [valid |-> FALSE, restart_count |-> 0, last_timestamp_us |-> 0]

\* no reset counter is studied on its own
CountersAtRest ==
    /\ unit = "none"
    /\ boot_reason = "ESP_RST_POWERON"
    /\ boot_now = 0
    /\ upc = "off"
    /\ lcm_rst_count = 0
    /\ lcm_rst_armed = 0
    /\ lcm_rst_timer = FALSE
    /\ hw_rst_cnt = 0
    /\ hw_rst_t0 = 0
    /\ lcm_state = NoState
    /\ since_prev = 0
    /\ since_first = 0
    /\ run_len = 0
    /\ boots_since_wipe = 0
    /\ wiped = FALSE

\* download_signature is not called
DlAtRest ==
    /\ dl_pc = "off"
    /\ client = "none"
    /\ redirects = 0
    /\ status = 0
    /\ out_len = 0
    /\ dl_err = "none"

\* no button is configured: the statics of button_task as initialised
BtnAtRest ==
    /\ btn_now = 0
    /\ btn_down = FALSE
    /\ s_press_start_time_us = -1
    /\ s_last_release_time_us = 0
    /\ s_press_count = 0
    /\ s_waiting_for_second_press = FALSE
    /\ s_double_press_detected = FALSE
    /\ presses = <<>>
    /\ events = <<>>

UnitsAtRest == CountersAtRest /\ DlAtRest /\ BtnAtRest

Snapshot == [ver |-> nvs_installed_ver, part |-> nvs_installed_part,
             flag |-> nvs_do_update, boot |-> boot_partition, slot |-> slot]

\* the position of freshly booted code: the lifecycle manager waits for
\* connectivity, an application runs
EntryPc(run) == IF run = FACTORY THEN "lcm_idle" ELSE "app"

\* the locals of a check that has returned, or has not begun
DropFrame ==
    /\ update_requested' = FALSE
    /\ cur' = InvalidVersion
    /\ installed_version' = EMPTYSTR
    /\ release' = NoRelease
    /\ rel' = InvalidVersion
    /\ sig' = NoSig
    /\ sig_len' = 0
    /\ update_part' = NOPART
    /\ partition_changed' = FALSE
    /\ sig_body_len' = 0

\* the check returns code to wifi_ready; why names the exit taken
Return(code, why) ==
    /\ pc' = "done"
    /\ ret' = code
    /\ ended' = why
    /\ DropFrame

\* the check goes on at position next
Goto(next) ==
    /\ pc' = next
    /\ ret' = "ESP_OK"
    /\ ended' = "running"

\* the devices modelled at power-on: the partition contents with the
\* installed-firmware record that describes them
InitialDevices ==
    { [ver |-> <<>>, part |-> <<>>, ota_0 |-> NoImage, ota_1 |-> NoImage],
      [ver |-> <<V_1_0_0>>, part |-> <<"ota_0">>,
       ota_0 |-> App_1_0_0, ota_1 |-> NoImage],
      [ver |-> <<V_1_0_0>>, part |-> <<>>,
       ota_0 |-> App_1_0_0, ota_1 |-> NoImage],
      [ver |-> <<V_1_2_0>>, part |-> <<"ota_1">>,
       ota_0 |-> App_1_0_0, ota_1 |-> ImgA] }

Init ==
    /\ \E d \in InitialDevices :
         /\ nvs_installed_ver = d.ver
         /\ nvs_installed_part = d.part
         /\ slot = [s \in Slots |-> IF s = FACTORY THEN LcmImage
                                    ELSE IF s = "ota_0" THEN d.ota_0
                                    ELSE d.ota_1]
         /\ boot_partition \in {FACTORY} \cup
                               {p \in OtaSlots : d.part = <<p>>}
    /\ nvs_do_update \in {<<>>, <<1>>}
    /\ running = BootTarget(slot, boot_partition)
    /\ pc = EntryPc(running)
    /\ update_requested = FALSE
    /\ cur = InvalidVersion
    /\ installed_version = EMPTYSTR
    /\ release = NoRelease
    /\ rel = InvalidVersion
    /\ sig = NoSig
    /\ sig_len = 0
    /\ update_part = NOPART
    /\ partition_changed = FALSE
    /\ sig_body_len = 0
    /\ ret = "ESP_OK"
    /\ before = Snapshot
    /\ verified = FALSE
    /\ written = NOPART
    /\ boot_target = NOPART
    /\ boot_written = FALSE
    /\ ended = "none"
    /\ checks = 0
    /\ boots = 0
    /\ DetectionAtRest
    /\ NoCall
    /\ UnitsAtRest

\* ------------------------------------------------------------------------
\* github_update_if_needed
\* ------------------------------------------------------------------------

\* the installed baseline: the stored version when it parses, else the
\* version embedded in the running image
Baseline(nvs_ver, read_ok, running_ver) ==
    IF /\ load_installed_version(nvs_ver, read_ok).found
       /\ parse_version(load_installed_version(nvs_ver, read_ok).version).valid
    THEN parse_version(load_installed_version(nvs_ver, read_ok).version)
    ELSE parse_version(running_ver)

\* sanitized_version: the release version re-formatted, empty when invalid
Sanitized(v) ==
    IF v.valid THEN FormatVersion(v.maj, v.min, v.pat, INSTALLED_VER_MAX_LEN)
    ELSE EMPTYSTR

\* the test with a release equal to the baseline counted as newer
AlreadyUpToDateStrict(r, c) ==
    r.valid /\ c.valid
    /\ cmp_version(r.maj, r.min, r.pat, c.maj, c.min, c.pat) < 0

\* the test that takes the "Firmware already up to date" branch
AlreadyUpToDate(r, c) ==
    r.valid /\ c.valid
    /\ cmp_version(r.maj, r.min, r.pat, c.maj, c.min, c.pat) <= 0

\* the release_version argument handed to github_update_from_urls
VersionArgument(tag, r) ==
    LET arg == IF Sanitized(r) # EMPTYSTR THEN Sanitized(r) ELSE tag
    IN  IF arg # NULLSTR /\ arg # EMPTYSTR THEN arg ELSE NULLSTR

\* entry of an update check up to the parsing of the release tag
CheckBegin ==
    /\ pc \in {"lcm_idle", "done"}
    /\ checks < MaxChecks
    /\ \E prerelease \in BOOLEAN, json1 \in JsonResponses,
          flag_read_ok \in BOOLEAN, ver_read_ok \in BOOLEAN :
         \E json2 \in IF ~prerelease /\ json1.kind # "error"
                         /\ ~SelectRelease(prerelease, json1, JsonError).ok
                      THEN JsonArrays \cup {JsonError} ELSE {JsonError} :
           \E c \in {Baseline(nvs_installed_ver, ver_read_ok,
                                slot[running].ver)},
              sel \in {SelectRelease(prerelease, json1, json2)} :
               IF sel.ok
               THEN /\ Goto("compare")
                    /\ update_requested' =
                           read_update_request_flag(nvs_do_update, flag_read_ok)
                    /\ cur' = c
                    /\ installed_version' = Sanitized(c)
                    /\ release' = sel.rel
                    /\ \E tag \in {sel.rel.tag} : rel' = parse_version(tag)
                    /\ UNCHANGED <<sig, sig_len, update_part,
                                   partition_changed, sig_body_len>>
               ELSE Return("ESP_FAIL", "no_release")
    /\ checks' = checks + 1
    /\ before' = Snapshot
    /\ verified' = FALSE
    /\ written' = NOPART
    /\ boot_target' = NOPART
    /\ boot_written' = FALSE
    /\ UNCHANGED <<persistent, running, boots>>
    /\ UNCHANGED <<orch, calc, units>>

\* the version comparison; in the up-to-date branch the stored version is
\* refreshed with the release version before the request flag is looked at
CompareVersions ==
    /\ pc = "compare"
    /\ IF AlreadyUpToDate(rel, cur)
       THEN \E fault \in NvsFaults :
              \E st \in {store_installed_version_if_needed(
                             nvs_installed_ver, nvs_installed_part,
                             Sanitized(rel), NOPART, fault)} :
                  /\ nvs_installed_ver' = st.ver
                  /\ nvs_installed_part' = st.part
                  /\ IF update_requested
                     THEN Goto("uptodate_boot") /\ UNCHANGED frame
                     ELSE Return("ESP_OK", "up_to_date")
       ELSE /\ Goto("assets")
            /\ UNCHANGED <<nvs_installed_ver, nvs_installed_part, frame>>
    /\ UNCHANGED <<nvs_do_update, boot_partition, slot, running, history,
                   checks, boots>>
    /\ UNCHANGED <<orch, calc, units>>

\* update requested but nothing newer: point the boot pointer at the
\* installed firmware
SetBootForInstalled ==
    /\ pc = "uptodate_boot"
    /\ \E read_ok \in BOOLEAN, flash_ok \in BOOLEAN :
         \E target \in {InstalledTarget(slot, nvs_installed_part, read_ok,
                                         cur.maj, cur.min, cur.pat)} :
         \E r \in {set_boot_partition_for_installed_firmware(
                       slot, boot_partition, target, flash_ok)} :
             /\ boot_partition' = r.boot
             /\ boot_target' = target
             /\ boot_written' = r.wrote
             /\ IF r.err = "ESP_OK" /\ r.changed
                THEN /\ Goto("uptodate_clear")
                     /\ partition_changed' = TRUE
                     /\ UNCHANGED <<update_requested, cur, installed_version,
                                    release, rel, sig, sig_len, update_part,
                                    sig_body_len>>
                ELSE Return("ESP_OK",
                            IF r.err = "ESP_OK" THEN "boot_unchanged"
                            ELSE "boot_failed")
    /\ UNCHANGED <<nvs_installed_ver, nvs_installed_part, nvs_do_update, slot,
                   running, before, verified, written, checks, boots>>
    /\ UNCHANGED <<orch, calc, units>>

\* the boot pointer was moved: clear the request flag, then restart
ClearFlagAfterBoot ==
    /\ pc = "uptodate_clear"
    /\ \E fault \in FlagFaults :
         nvs_do_update' =
             write_update_request_flag(nvs_do_update, FALSE, fault).flag
    /\ pc' = "restart"
    /\ UNCHANGED <<nvs_installed_ver, nvs_installed_part, boot_partition, slot,
                   running, frame, ret, history, ended, checks, boots>>
    /\ UNCHANGED <<orch, calc, units>>

\* an asset scan that gives the request up when an asset is missing:
\* UpdateRequestFlag is cleared on the way out
ScanAssetsClearingFlag ==
    /\ pc = "assets"
    /\ IF release.fw /\ release.sig
       THEN Goto("sig") /\ UNCHANGED <<frame, nvs_do_update>>
       ELSE /\ Return("ESP_FAIL", "missing_assets")
            /\ nvs_do_update' = <<0>>
    /\ UNCHANGED <<nvs_installed_ver, nvs_installed_part, boot_partition,
                   slot, running, history, checks, boots>>
    /\ UNCHANGED <<orch, calc, units>>

\* the asset scan for main.bin and main.bin.sig
ScanAssets ==
    /\ pc = "assets"
    /\ IF release.fw /\ release.sig
       THEN Goto("sig") /\ UNCHANGED frame
       ELSE Return("ESP_FAIL", "missing_assets")
    /\ UNCHANGED <<persistent, running, history, checks, boots>>
    /\ UNCHANGED <<orch, calc, units>>

\* ------------------------------------------------------------------------
\* github_update_from_urls
\* ------------------------------------------------------------------------

\* download_signature: what esp_http_client_read_response leaves in the
\* 52-byte buffer, and the byte count it reports
download_signature(body, http_ok, buf_len) ==
    LET r == IF body.body_len < buf_len THEN body.body_len ELSE buf_len
    IN  IF ~http_ok \/ r <= 0
        THEN [err |-> "ESP_FAIL", out_len |-> 0, buf |-> NoSig]
        ELSE [err |-> "ESP_OK", out_len |-> r,
              buf |-> [digest |-> body.digest, lenbytes |-> body.lenbytes]]

\* the signature download and the check of its size
DownloadSignature ==
    /\ pc = "sig"
    /\ \E body \in SigBodies, http_ok \in BOOLEAN :
         \E d \in {download_signature(body, http_ok, SIG_SIZE)} :
             IF d.err # "ESP_OK" THEN Return(d.err, "sig_download")
             ELSE IF d.out_len # SIG_SIZE THEN Return("ESP_FAIL", "sig_size")
             ELSE /\ Goto("select")
                  /\ sig' = d.buf
                  /\ sig_len' = d.out_len
                  /\ sig_body_len' = body.body_len
                  /\ UNCHANGED <<update_requested, cur, installed_version,
                                 release, rel, update_part, partition_changed>>
    /\ UNCHANGED <<persistent, running, history, checks, boots>>
    /\ UNCHANGED <<orch, calc, units>>

\* the choice of the partition to write
SelectUpdatePartition ==
    /\ pc = "select"
    /\ \E p \in {esp_ota_get_next_update_partition(running)} :
           IF p = NOPART THEN Return("ESP_FAIL", "no_partition")
           ELSE /\ Goto("ota")
                /\ update_part' = p
                /\ UNCHANGED <<update_requested, cur, installed_version,
                               release, rel, sig, sig_len, partition_changed,
                               sig_body_len>>
    /\ UNCHANGED <<persistent, running, history, checks, boots>>
    /\ UNCHANGED <<orch, calc, units>>

\* what a transfer may leave in the partition besides a served image
BrokenImage == [valid |-> FALSE, ver |-> EMPTYSTR, bytes |-> <<0>>]

\* esp_https_ota, first part: the partition is erased and the response body
\* streamed into it; a transport failure ends the attempt
OtaTransfer ==
    /\ pc = "ota"
    /\ \/ /\ Return("ESP_FAIL", "ota_connect")
          /\ UNCHANGED <<slot, written>>
       \/ /\ slot' = [slot EXCEPT ![update_part] = NoImage]
          /\ written' = update_part
          /\ Return("ESP_FAIL", "ota_write")
       \/ \E img \in Images \cup {BrokenImage} :
            /\ slot' = [slot EXCEPT ![update_part] = img]
            /\ written' = update_part
            /\ Goto("ota_finish")
            /\ UNCHANGED frame
    /\ UNCHANGED <<nvs_installed_ver, nvs_installed_part, nvs_do_update,
                   boot_partition, running, before, verified, boot_target,
                   boot_written, checks, boots>>
    /\ UNCHANGED <<orch, calc, units>>

\* esp_https_ota, last part (esp_https_ota_finish): the written image is
\* validated and the boot pointer is set to the written partition
OtaFinish ==
    /\ pc = "ota_finish"
    /\ \E flash_ok \in BOOLEAN :
         IF SetBootOk(slot, update_part, flash_ok)
         THEN /\ boot_partition' = update_part
              /\ Goto("verify")
              /\ UNCHANGED frame
         ELSE /\ UNCHANGED boot_partition
              /\ Return("ESP_FAIL", "ota_finish")
    /\ boot_written' = slot[update_part].valid
    /\ UNCHANGED <<nvs_installed_ver, nvs_installed_part, nvs_do_update, slot,
                   running, before, verified, written, boot_target, checks,
                   boots>>
    /\ UNCHANGED <<orch, calc, units>>

\* the comparisons without the one of the recorded length
VerifyOutcomeNoLength(s, img, meta_ok, hash_ok) ==
    LET image_len == Len(img.bytes)
    IN  IF ~meta_ok THEN "metadata"
        ELSE IF ~hash_ok THEN "hash_failed"
        ELSE IF partition_sha384(img.bytes, image_len) # s.digest
        THEN "sha_mismatch"
        ELSE "verified"

\* the length and digest comparisons against the signature record
VerifyOutcome(s, img, meta_ok, hash_ok) ==
    LET image_len == Len(img.bytes)
    IN  IF ~meta_ok THEN "metadata"
        ELSE IF ExpectedLen(s) # image_len THEN "len_mismatch"
        ELSE IF ~hash_ok THEN "hash_failed"
        ELSE IF partition_sha384(img.bytes, image_len) # s.digest
        THEN "sha_mismatch"
        ELSE "verified"

VerifyImage ==
    /\ pc = "verify"
    /\ \E meta_ok \in BOOLEAN, hash_ok \in BOOLEAN :
         \E v \in {VerifyOutcome(sig, slot[update_part], meta_ok, hash_ok)} :
             IF v = "verified"
             THEN /\ Goto("store")
                  /\ verified' = TRUE
                  /\ UNCHANGED frame
             ELSE /\ Return("ESP_FAIL", v)
                  /\ verified' = FALSE
    /\ UNCHANGED <<persistent, running, before, written, boot_target,
                   boot_written, checks, boots>>
    /\ UNCHANGED <<orch, calc, units>>

\* the version persisted after verification: the release version, else the
\* version of the new image's descriptor, else none
VersionToStore(release_version, img, desc_ok) ==
    IF release_version # NULLSTR /\ release_version # EMPTYSTR
    THEN release_version
    ELSE IF desc_ok /\ img.ver # EMPTYSTR THEN img.ver
    ELSE NULLSTR

StoreInstalled ==
    /\ pc = "store"
    /\ \E fault \in NvsFaults, desc_ok \in BOOLEAN :
         \E arg \in {VersionArgument(release.tag, rel)} :
         \E v \in {VersionToStore(arg, slot[update_part], desc_ok)} :
         \E st \in {store_installed_version_if_needed(
                        nvs_installed_ver, nvs_installed_part, v,
                        update_part, fault)} :
             /\ nvs_installed_ver' = st.ver
             /\ nvs_installed_part' = st.part
    /\ pc' = "clear_flag"
    /\ UNCHANGED <<nvs_do_update, boot_partition, slot, running, frame, ret,
                   history, ended, checks, boots>>
    /\ UNCHANGED <<orch, calc, units>>

ClearFlagAfterUpdate ==
    /\ pc = "clear_flag"
    /\ \E fault \in FlagFaults :
         nvs_do_update' =
             write_update_request_flag(nvs_do_update, FALSE, fault).flag
    /\ pc' = "restart"
    /\ UNCHANGED <<nvs_installed_ver, nvs_installed_part, boot_partition, slot,
                   running, frame, ret, history, ended, checks, boots>>
    /\ UNCHANGED <<orch, calc, units>>

\* ------------------------------------------------------------------------
\* Restart, power loss, and the application's update request
\* ------------------------------------------------------------------------

RebootDevice ==
    /\ boots < MaxBoots
    /\ boots' = boots + 1
    /\ running' = BootTarget(slot, boot_partition)
    /\ pc' = EntryPc(running')
    /\ ret' = "ESP_OK"
    /\ before' = Snapshot
    /\ verified' = FALSE
    /\ written' = NOPART
    /\ boot_target' = NOPART
    /\ boot_written' = FALSE
    /\ DropFrame
    /\ UNCHANGED <<persistent, checks>>

Reboot ==
    /\ RebootDevice
    /\ UNCHANGED <<orch, calc, units>>

\* esp_restart
Restart ==
    /\ pc = "restart"
    /\ ended' = "restart"
    /\ Reboot

\* power is lost and restored, wherever the code stands
PowerLoss ==
    /\ pc # "restart"
    /\ ended' = "power_loss"
    /\ Reboot

\* lifecycle_request_update_and_reboot, first part: the request flag
RequestUpdateFlag ==
    /\ pc = "app"
    /\ \E fault \in FlagFaults :
         nvs_do_update' = IF fault = "none" \/ fault = "commit"
                          THEN <<1>> ELSE nvs_do_update
    /\ pc' = "app_req_boot"
    /\ UNCHANGED <<nvs_installed_ver, nvs_installed_part, boot_partition, slot,
                   running, frame, ret, history, ended, checks, boots>>
    /\ UNCHANGED <<orch, calc, units>>

\* lifecycle_request_update_and_reboot that returns to its caller when the
\* factory partition is missing or the boot pointer cannot be written
RequestUpdateBootReturning ==
    /\ pc = "app_req_boot"
    /\ \E factory_found \in BOOLEAN, flash_ok \in BOOLEAN :
         IF factory_found /\ SetBootOk(slot, FACTORY, flash_ok)
         THEN boot_partition' = FACTORY /\ pc' = "restart"
         ELSE boot_partition' = boot_partition /\ pc' = "app"
    /\ boot_written' = TRUE
    /\ UNCHANGED <<nvs_installed_ver, nvs_installed_part, nvs_do_update, slot,
                   running, frame, ret, before, verified, written, boot_target,
                   ended, checks, boots>>
    /\ UNCHANGED <<orch, calc, units>>

\* lifecycle_request_update_and_reboot, last part: boot pointer to factory.
\* esp_restart follows on each of the three ways out: factory partition
\* not found, esp_ota_set_boot_partition failed, boot pointer moved
RequestUpdateBoot ==
    /\ pc = "app_req_boot"
    /\ \E factory_found \in BOOLEAN, flash_ok \in BOOLEAN :
         boot_partition' = IF factory_found /\ SetBootOk(slot, FACTORY, flash_ok)
                           THEN FACTORY ELSE boot_partition
    /\ boot_written' = TRUE
    /\ pc' = "restart"
    /\ UNCHANGED <<nvs_installed_ver, nvs_installed_part, nvs_do_update, slot,
                   running, frame, ret, before, verified, written, boot_target,
                   ended, checks, boots>>
    /\ UNCHANGED <<orch, calc, units>>

Next ==
    \/ CheckBegin
    \/ CompareVersions
    \/ SetBootForInstalled
    \/ ClearFlagAfterBoot
    \/ ScanAssets
    \/ DownloadSignature
    \/ SelectUpdatePartition
    \/ OtaTransfer
    \/ OtaFinish
    \/ VerifyImage
    \/ StoreInstalled
    \/ ClearFlagAfterUpdate
    \/ Restart
    \/ PowerLoss
    \/ RequestUpdateFlag
    \/ RequestUpdateBoot

Spec == Init /\ [][Next]_vars

\* the pipeline with the progress the code gives once a call is under way:
\* lifecycle_request_update_and_reboot runs to its esp_restart, and a check
\* that has begun runs on to its return or to its esp_restart, none of its
\* calls waiting without a timeout. Nothing makes an application request an
\* update, a check begin, or the power fail
PipelineLive ==
    /\ Spec
    /\ WF_vars(RequestUpdateBoot)
    /\ WF_vars(CompareVersions)
    /\ WF_vars(SetBootForInstalled)
    /\ WF_vars(ClearFlagAfterBoot)
    /\ WF_vars(ScanAssets)
    /\ WF_vars(DownloadSignature)
    /\ WF_vars(SelectUpdatePartition)
    /\ WF_vars(OtaTransfer)
    /\ WF_vars(OtaFinish)
    /\ WF_vars(VerifyImage)
    /\ WF_vars(StoreInstalled)
    /\ WF_vars(ClearFlagAfterUpdate)

\* ------------------------------------------------------------------------
\* Rapid power-cycle detection: actions
\* ------------------------------------------------------------------------

\* the update check does not run while the detection is followed
CheckStill ==
    UNCHANGED <<pc, frame, ret, history, ended, checks, boots, calc, units>>

\* a step that neither erases for a factory reset nor verifies one
CONFIG_LCM_FACTORY_RESET_COUNTDOWN_SECONDS == 11

\* the countdown loop leaves nothing to wait for
CountdownNotAwaited(v, logged) == TRUE

\* the countdown loop has ended: handle_power_cycle_sequence logs and waits
\* for i from RESTART_COUNTER_THRESHOLD_MIN down to 0,
\* countdown_before_factory_reset for remaining from
\* CONFIG_LCM_FACTORY_RESET_COUNTDOWN_SECONDS down to 1
countdown_done(v, logged) ==
    logged = IF v = "main" THEN RESTART_COUNTER_THRESHOLD_MIN + 1
             ELSE CONFIG_LCM_FACTORY_RESET_COUNTDOWN_SECONDS

WipeStill ==
    UNCHANGED <<factory_reset_verification_pending, attempted, failed, ticks>>

\* the positions at which a reset can interrupt the code: after the
\* classification of the boot, which runs within milliseconds of the reset
Interruptible == {"idle", "countdown", "erasing", "restart"}

\* a device starting after a reset: the boot pointer decides the partition,
\* RAM is initialised, and the RTC data is initialised unless keep_rtc.
\* factory_reset_task sets factory_reset_verification_pending just before
\* its esp_restart
ResetWith(reason, keep_rtc) ==
    /\ reset_reason' = reason
    /\ opc' = "boot"
    /\ running' = BootTarget(slot, boot_partition)
    /\ restart_counter_value' = 0
    /\ restart_counter_timer' = FALSE
    /\ s_factory_reset_cb' = FALSE
    /\ reached' = 0
    /\ cb_runs' = 0
    /\ factory_reset_pending_ota_subtype' =
           IF keep_rtc THEN factory_reset_pending_ota_subtype ELSE NOPART
    /\ factory_reset_verification_pending' =
           IF keep_rtc
           THEN \/ factory_reset_verification_pending
                \/ variant = "main" /\ opc = "restart" /\ reason = "ESP_RST_SW"
           ELSE FALSE
    /\ ticks' = 0
    /\ UNCHANGED <<variant, nvs_restart_count, streak, deferred, persistent,
                   attempted, failed>>
    /\ CheckStill

\* power is cycled or the reset pin is pulled: RTC memory loses its contents
QualifyingReset ==
    /\ opc \in Interruptible
    /\ streak < MaxStreak
    /\ \E reason \in QualifyingReasons : ResetWith(reason, FALSE)

\* a panic, or a wake from deep sleep. RTC memory keeps its contents through
\* deep sleep; through a panic reset the contents stay, but the loader
\* writes the initial values of RTC data again, so both outcomes are
\* admitted
OtherReset ==
    /\ opc \in Interruptible
    /\ \E reason \in OtherReasons \ {"ESP_RST_SW"}, keep_rtc \in BOOLEAN :
         /\ reason = "ESP_RST_DEEPSLEEP" => keep_rtc
         /\ ResetWith(reason, keep_rtc)

\* esp_restart, with RTC data as after a panic reset
EspRestart ==
    /\ opc = "restart"
    /\ \E keep_rtc \in BOOLEAN : ResetWith("ESP_RST_SW", keep_rtc)

\* app_main of the lifecycle manager up to the return of
\* handle_power_cycle_sequence or the start of its countdown:
\* finalize_deferred_factory_reset, restart_counter_load,
\* verify_factory_reset_cleanup, classification
AppMainWith(store_ok) ==
    /\ variant = "main"
    /\ opc = "boot"
    /\ \E f \in {finalize_deferred_factory_reset(
                     slot, running, factory_reset_pending_ota_subtype)} :
         /\ slot' = f.slot
         /\ factory_reset_pending_ota_subtype' = f.pending
         /\ deferred' = IF deferred # NOPART /\ ~f.slot[deferred].valid
                        THEN NOPART ELSE deferred
         /\ factory_reset_verification_pending' =
                verify_factory_reset_cleanup(
                    f.slot, boot_partition, f.pending,
                    factory_reset_verification_pending)
    /\ \E loaded \in {restart_counter_load(nvs_restart_count)} :
         \E h \in {handle_power_cycle_sequence(reset_reason,
                                               nvs_restart_count, loaded)} :
             /\ nvs_restart_count' =
                    restart_counter_store(nvs_restart_count, h, store_ok)
             /\ restart_counter_value' = h.value
             /\ restart_counter_timer' = h.timer
             /\ reached' = h.reached
             /\ opc' = h.next
    /\ streak' = IF reason_counts_towards_threshold(reset_reason)
                 THEN streak + 1 ELSE 0
    /\ UNCHANGED <<variant, reset_reason, s_factory_reset_cb, cb_runs,
                   nvs_installed_ver, nvs_installed_part, nvs_do_update,
                   boot_partition, running, attempted, failed, ticks>>
    /\ CheckStill

\* app_main on a key-value store that takes every write
AppMain == AppMainWith(TRUE)

\* app_main on a key-value store in which restart_counter_store(count) can
\* fail
FaultyAppMain == \E store_ok \in BOOLEAN : AppMainWith(store_ok)

\* restart_counter_timeout, lifecycle_restart_counter_reset and
\* lifecycle_reset_restart_counter: the stable-window timer fires
RestartCounterTimeout ==
    /\ opc = "idle"
    /\ restart_counter_timer
    /\ restart_counter_timer' = FALSE
    /\ restart_counter_value' = 0
    /\ nvs_restart_count' = <<0>>
    /\ streak' = 0
    /\ UNCHANGED <<variant, reset_reason, opc,
                   factory_reset_pending_ota_subtype, s_factory_reset_cb,
                   reached, cb_runs, deferred, persistent, running>>
    /\ WipeStill
    /\ CheckStill

\* one pass of the countdown loop: a line is logged and a second waited
CountdownTick ==
    /\ variant \in {"main", "component"}
    /\ opc = "countdown"
    /\ ~countdown_done(variant, ticks)
    /\ ticks' = ticks + 1
    /\ UNCHANGED <<variant, nvs_restart_count, restart_counter_value,
                   restart_counter_timer, reset_reason, opc,
                   factory_reset_pending_ota_subtype, s_factory_reset_cb,
                   streak, reached, cb_runs, deferred,
                   factory_reset_verification_pending, attempted, failed,
                   persistent, running>>
    /\ CheckStill

\* handle_power_cycle_sequence after its countdown: restart_counter_reset,
\* then factory_reset creates the task
CountdownElapsed ==
    /\ variant = "main"
    /\ opc = "countdown"
    /\ countdown_done(variant, ticks)
    /\ restart_counter_timer' = FALSE
    /\ restart_counter_value' = 0
    /\ nvs_restart_count' = <<0>>
    /\ streak' = 0
    /\ opc' = "erasing"
    /\ UNCHANGED <<variant, reset_reason, factory_reset_pending_ota_subtype,
                   s_factory_reset_cb, reached, cb_runs, deferred, persistent,
                   running>>
    /\ WipeStill
    /\ CheckStill

\* factory_reset_task up to its esp_restart: clear_nvs_storage,
\* erase_otadata_partition (the boot pointer falls back to the factory
\* partition), erase_ota_app_partitions
FactoryResetTaskWith(fault) ==
    /\ opc = "erasing"
    /\ \E t \in {factory_reset_task(
                     slot, running, factory_reset_pending_ota_subtype,
                     fault)} :
         /\ nvs_installed_ver' = IF t.nvs_erased THEN <<>>
                                 ELSE nvs_installed_ver
         /\ nvs_installed_part' = IF t.nvs_erased THEN <<>>
                                  ELSE nvs_installed_part
         /\ nvs_do_update' = IF t.nvs_erased THEN <<>> ELSE nvs_do_update
         /\ nvs_restart_count' = IF t.nvs_erased THEN <<>>
                                 ELSE nvs_restart_count
         /\ boot_partition' = IF t.otadata_erased THEN FACTORY
                              ELSE boot_partition
         /\ slot' = t.slot
         /\ factory_reset_pending_ota_subtype' = t.pending
         /\ deferred' = IF t.slot[running].valid /\ running \in OtaSlots
                        THEN running ELSE NOPART
         /\ attempted' = t.attempted
         /\ failed' = t.failed
         /\ opc' = t.next
    /\ UNCHANGED <<variant, restart_counter_value, restart_counter_timer,
                   reset_reason, s_factory_reset_cb, streak, reached, cb_runs,
                   running, factory_reset_verification_pending, ticks>>
    /\ CheckStill

\* the task on flash that erases without error
FactoryResetTask == FactoryResetTaskWith(NoFaults)

\* the task on flash whose erasures can fail
FaultyFactoryResetTask == \E fault \in FaultChoices : FactoryResetTaskWith(fault)

\* the start-up hook lifecycle_restart_counter_bootstrap_fn
Bootstrap ==
    /\ variant = "bootstrap"
    /\ opc = "boot"
    /\ \E running_is_factory \in {running = FACTORY} :
         \E b \in {lifecycle_restart_counter_bootstrap(
                       reset_reason, nvs_restart_count, running_is_factory)} :
             /\ nvs_restart_count' = b.nvs
             /\ restart_counter_value' = b.value
             /\ reached' = b.reached
             /\ boot_partition' = IF b.to_factory THEN FACTORY
                                  ELSE boot_partition
             /\ opc' = IF b.to_factory THEN "restart" ELSE "idle"
    /\ streak' = IF reason_counts_towards_threshold(reset_reason)
                 THEN streak + 1 ELSE 0
    /\ UNCHANGED <<variant, restart_counter_timer, reset_reason,
                   factory_reset_pending_ota_subtype, s_factory_reset_cb,
                   cb_runs, deferred, nvs_installed_ver, nvs_installed_part,
                   nvs_do_update, slot, running>>
    /\ WipeStill
    /\ CheckStill

\* lifecycle_register_factory_reset_callback, called by the application
\* before lifecycle_log_post_reset_state; FALSE is the NULL callback
RegisterCallback ==
    /\ variant = "component"
    /\ opc = "boot"
    /\ \E cb \in BOOLEAN : s_factory_reset_cb' = cb
    /\ UNCHANGED <<variant, nvs_restart_count, restart_counter_value,
                   restart_counter_timer, reset_reason, opc,
                   factory_reset_pending_ota_subtype, streak, reached,
                   cb_runs, deferred, persistent, running>>
    /\ WipeStill
    /\ CheckStill

\* lifecycle_log_post_reset_state up to its return or the start of
\* countdown_before_factory_reset
LogPostResetState ==
    /\ variant = "component"
    /\ opc = "boot"
    /\ \E l \in {lifecycle_log_post_reset_state(reset_reason,
                                                nvs_restart_count)} :
         /\ nvs_restart_count' = l.nvs
         /\ restart_counter_value' = l.value
         /\ restart_counter_timer' = l.timer
         /\ reached' = l.reached
         /\ opc' = l.next
    /\ streak' = IF reason_counts_towards_threshold(reset_reason)
                 THEN streak + 1 ELSE 0
    /\ UNCHANGED <<variant, reset_reason, factory_reset_pending_ota_subtype,
                   s_factory_reset_cb, cb_runs, deferred, persistent, running>>
    /\ WipeStill
    /\ CheckStill

\* lifecycle_log_post_reset_state after its countdown:
\* lifecycle_reset_restart_counter, then maybe_execute_factory_reset. The
\* callback is application code: it restarts the device or returns
ExecuteFactoryReset ==
    /\ variant = "component"
    /\ opc = "countdown"
    /\ countdown_done(variant, ticks)
    /\ restart_counter_timer' = FALSE
    /\ restart_counter_value' = 0
    /\ nvs_restart_count' = <<0>>
    /\ streak' = 0
    /\ IF s_factory_reset_cb
       THEN /\ cb_runs' = cb_runs + 1
            /\ opc' \in {"restart", "idle"}
       ELSE /\ cb_runs' = cb_runs
            /\ opc' = "idle"
    /\ UNCHANGED <<variant, reset_reason, factory_reset_pending_ota_subtype,
                   s_factory_reset_cb, reached, deferred, persistent, running>>
    /\ WipeStill
    /\ CheckStill

\* a device reset for the first time in a while: no count is stored,
\* nothing is deferred
DetectionInit ==
    /\ \E d \in InitialDevices :
         /\ nvs_installed_ver = d.ver
         /\ nvs_installed_part = d.part
         /\ slot = [s \in Slots |-> IF s = FACTORY THEN LcmImage
                                    ELSE IF s = "ota_0" THEN d.ota_0
                                    ELSE d.ota_1]
         /\ boot_partition \in {FACTORY} \cup
                               {p \in OtaSlots : d.part = <<p>>}
    /\ nvs_do_update = <<>>
    /\ running = BootTarget(slot, boot_partition)
    /\ pc = EntryPc(running)
    /\ update_requested = FALSE
    /\ cur = InvalidVersion
    /\ installed_version = EMPTYSTR
    /\ release = NoRelease
    /\ rel = InvalidVersion
    /\ sig = NoSig
    /\ sig_len = 0
    /\ update_part = NOPART
    /\ partition_changed = FALSE
    /\ sig_body_len = 0
    /\ ret = "ESP_OK"
    /\ before = Snapshot
    /\ verified = FALSE
    /\ written = NOPART
    /\ boot_target = NOPART
    /\ boot_written = FALSE
    /\ ended = "none"
    /\ checks = 0
    /\ boots = 0
    /\ variant \in Variants
    /\ nvs_restart_count = <<>>
    /\ restart_counter_value = 0
    /\ restart_counter_timer = FALSE
    /\ reset_reason \in QualifyingReasons \cup OtherReasons
    /\ opc = "boot"
    /\ factory_reset_pending_ota_subtype = NOPART
    /\ s_factory_reset_cb = FALSE
    /\ streak = 0
    /\ reached = 0
    /\ cb_runs = 0
    /\ deferred = NOPART
    /\ factory_reset_verification_pending = FALSE
    /\ attempted = {}
    /\ failed = {}
    /\ ticks = 0
    /\ NoCall
    /\ UnitsAtRest

DetectionNext ==
    \/ QualifyingReset
    \/ OtherReset
    \/ EspRestart
    \/ AppMain
    \/ RestartCounterTimeout
    \/ CountdownTick
    \/ CountdownElapsed
    \/ FactoryResetTask
    \/ Bootstrap
    \/ RegisterCallback
    \/ LogPostResetState
    \/ ExecuteFactoryReset

DetectionSpec == DetectionInit /\ [][DetectionNext]_vars

\* the detection with the progress the code's scheduling gives while the
\* device stays powered: start-up code runs to its end, an armed one-shot
\* timer expires after RESTART_COUNTER_RESET_TIMEOUT_MS, the countdown loop
\* ends after its eleven delays, the factory-reset task created by
\* xTaskCreate runs, and esp_restart restarts. Resets are not fair: the
\* environment may or may not cause them
DetectionLive ==
    /\ DetectionSpec
    /\ WF_vars(AppMain)
    /\ WF_vars(Bootstrap)
    /\ WF_vars(LogPostResetState)
    /\ WF_vars(RestartCounterTimeout)
    /\ WF_vars(CountdownTick)
    /\ WF_vars(CountdownElapsed)
    /\ WF_vars(ExecuteFactoryReset)
    /\ WF_vars(FactoryResetTask)
    /\ WF_vars(EspRestart)

\* ------------------------------------------------------------------------
\* Functions studied on their own
\* ------------------------------------------------------------------------

\* the device while a function is studied on its own: nothing installed, the
\* lifecycle manager waiting, the detection at rest
DeviceAtRest ==
    /\ nvs_installed_ver = <<>>
    /\ nvs_installed_part = <<>>
    /\ nvs_do_update = <<>>
    /\ boot_partition = FACTORY
    /\ slot = [s \in Slots |-> IF s = FACTORY THEN LcmImage ELSE NoImage]
    /\ running = FACTORY
    /\ pc = EntryPc(FACTORY)
    /\ update_requested = FALSE
    /\ cur = InvalidVersion
    /\ installed_version = EMPTYSTR
    /\ release = NoRelease
    /\ rel = InvalidVersion
    /\ sig = NoSig
    /\ sig_len = 0
    /\ update_part = NOPART
    /\ partition_changed = FALSE
    /\ sig_body_len = 0
    /\ ret = "ESP_OK"
    /\ before = Snapshot
    /\ verified = FALSE
    /\ written = NOPART
    /\ boot_target = NOPART
    /\ boot_written = FALSE
    /\ ended = "none"
    /\ checks = 0
    /\ boots = 0
    /\ DetectionAtRest

DeviceStill ==
    UNCHANGED <<persistent, running, pc, frame, ret, history, ended, checks,
                boots, orch>>

\* the characters version strings are built from: the prefix, a digit, the
\* separator, a sign, and a character that is none of these
VersionChars == {"v", "1", ".", "-", "x"}

\* the arguments of parse_version: NULL and every string of at most
\* MaxVersionLen characters
VersionArguments ==
    {NULLSTR} \cup UNION {[1..n -> VersionChars] : n \in 0..MaxVersionLen}

ParseInit ==
    /\ DeviceAtRest
    /\ UnitsAtRest
    /\ call_arg \in VersionArguments
    /\ call_res = <<>>

\* a call of parse_version
ParseVersion ==
    /\ call_res = <<>>
    /\ call_res' = <<parse_version(call_arg)>>
    /\ UNCHANGED call_arg
    /\ DeviceStill
    /\ UNCHANGED units

ParseNext == ParseVersion

ParseSpec == ParseInit /\ [][ParseNext]_vars

\* the version triples compared: every triple over CmpValues, and two triples
\* whose majors are as far apart as int allows (parse_version accepts a sign)
CmpValues == {0, 1, 3}

VersionTriples ==
    [maj : CmpValues, min : CmpValues, pat : CmpValues]
        \cup {[maj |-> INT_MAX, min |-> 0, pat |-> 0],
              [maj |-> -1, min |-> 0, pat |-> 0]}

\* x - y does not fit in an int
Overflows(x, y) ==
    \/ x >= 0 /\ y < 0 /\ x > INT_MAX + y
    \/ x < 0 /\ y > 0 /\ x < INT_MIN + y

\* the subtraction cmp_version returns
CmpOperands(a, b) ==
    IF a.maj # b.maj THEN <<a.maj, b.maj>>
    ELSE IF a.min # b.min THEN <<a.min, b.min>>
    ELSE <<a.pat, b.pat>>

\* the values a call of cmp_version can return: the difference; where the
\* subtraction overflows, which is undefined in C, the difference wrapped to
\* 32 bits or the value of the right sign a compiler that assumes no
\* overflow produces
CmpOutcomes(a, b) ==
    LET o == CmpOperands(a, b)
    IN  IF Overflows(o[1], o[2])
        THEN {cmp_version(a.maj, a.min, a.pat, b.maj, b.min, b.pat),
              IF o[1] > o[2] THEN INT_MAX ELSE INT_MIN}
        ELSE {cmp_version(a.maj, a.min, a.pat, b.maj, b.min, b.pat)}

CmpInit ==
    /\ DeviceAtRest
    /\ UnitsAtRest
    /\ call_arg \in VersionTriples \X VersionTriples \X VersionTriples
    /\ call_res = <<>>

\* the calls cmp_version(a,b), (b,a), (b,c) and (a,c) for the triples a, b, c
CmpVersion ==
    /\ call_res = <<>>
    /\ \E ab \in CmpOutcomes(call_arg[1], call_arg[2]),
          ba \in CmpOutcomes(call_arg[2], call_arg[1]),
          bc \in CmpOutcomes(call_arg[2], call_arg[3]),
          ac \in CmpOutcomes(call_arg[1], call_arg[3]) :
         call_res' = <<[ab |-> ab, ba |-> ba, bc |-> bc, ac |-> ac]>>
    /\ UNCHANGED call_arg
    /\ DeviceStill
    /\ UNCHANGED units

CmpNext == CmpVersion

CmpSpec == CmpInit /\ [][CmpNext]_vars

\* ------------------------------------------------------------------------
\* Properties
\* ------------------------------------------------------------------------

\* the positions of github_update_from_urls after the signature download
AfterSignature == {"select", "ota", "ota_finish", "verify", "store",
                   "clear_flag"}

\* the positions at which a signature or firmware transfer has been started
\* or has completed
Transferring == {"sig"} \cup AfterSignature

\* an update attempt has verified its image and is about to restart
UpdateRestart == pc = "restart" /\ update_part # NOPART

\* C1: the boot pointer never designates an OTA slot the current attempt
\* wrote unless that slot passed both the length and the digest comparison;
\* after an attempt that ended with a length or digest mismatch, or with a
\* failed transfer, the boot pointer is the one the attempt started with.
C1_BootOnlyAfterVerification ==
    /\ (written # NOPART /\ boot_partition = written) => verified
    /\ (pc = "done" /\ ended \in {"len_mismatch", "sha_mismatch", "hash_failed",
                                  "metadata", "ota_write", "ota_finish"})
           => boot_partition = before.boot

\* the record in s (n bytes received) is the length and the SHA-384 digest
\* of the image img
SigMatches(s, n, img) ==
    /\ n = SIG_SIZE
    /\ s.lenbytes = BE32(Len(img.bytes))
    /\ s.digest = Sha384(img.bytes)

\* C2: an attempt goes past verification only with a 52-byte record whose
\* length field equals the written image's length and whose digest equals
\* the SHA-384 of the written bytes; a verification step taken with a record
\* that fails one of the three returns an error, restarts nothing, and
\* leaves record and flag as they were.
C2_VerifiedMeansAllThree ==
    /\ [](pc \in {"store", "clear_flag"} \/ UpdateRestart
            => SigMatches(sig, sig_len, slot[update_part]))
    /\ [][(pc = "verify" /\ ~SigMatches(sig, sig_len, slot[update_part]))
            => (\/ (pc' = "done" /\ ret' # "ESP_OK" /\ persistent' = persistent)
                \/ ended' = "power_loss")]_vars

\* C2 witness: an attempt whose record matched is about to restart
C2_Witness ==
    /\ UpdateRestart
    /\ verified
    /\ SigMatches(sig, sig_len, slot[update_part])

\* C3: an attempt goes on past the signature download only if the body the
\* server sent was exactly 52 bytes long; with any other length no slot is
\* selected, erased or written.
C3_OnlyExactBodyAccepted ==
    pc \in AfterSignature => sig_body_len = SIG_SIZE

\* C4: the installed-firmware record differs from its value at the start of
\* the check only once the attempt's image has been verified: the
\* up-to-date path and every failed attempt leave it unchanged.
C4_RecordOnlyAfterVerification ==
    verified \/ (/\ nvs_installed_ver = before.ver
                 /\ nvs_installed_part = before.part)

\* the version and label the record holds after an update: the release
\* version (the sanitized tag, else the tag) and the slot written
RecordNames(tag, r, part) ==
    /\ nvs_installed_ver = <<IF r.valid THEN Sanitized(r) ELSE tag>>
    /\ nvs_installed_part = <<part>>

\* C5: when a verified update restarts the device, the boot pointer
\* designates the newly written slot, the record names the release version
\* and that slot, and the update-request flag is cleared.
C5_RestartAfterAllPersisted ==
    UpdateRestart =>
        /\ boot_partition = update_part
        /\ RecordNames(release.tag, rel, update_part)
        /\ nvs_do_update # <<1>>

\* C6: the update-request flag goes from set to cleared only in the step
\* that follows a boot-pointer change made on its behalf or a verified
\* update; a restart or power loss at any other point leaves it set.
C6_FlagClearedOnlyAfterAct ==
    /\ [][(nvs_do_update = <<1>> /\ nvs_do_update' # <<1>>)
            => \/ /\ pc = "uptodate_clear"
                  /\ partition_changed
                  /\ boot_partition # before.boot
                  /\ boot_partition = boot_target
               \/ pc = "clear_flag" /\ verified]_vars
    /\ [][boots' # boots => nvs_do_update' = nvs_do_update]_vars

\* C6 witness: the flag that was set when the check began has been cleared
\* after the boot pointer was moved, and the restart is due
C6_Witness ==
    /\ pc = "restart"
    /\ partition_changed
    /\ before.flag = <<1>>
    /\ nvs_do_update = <<0>>

\* C7: an up-to-date check with the flag set that finds the boot pointer
\* already on the installed firmware's slot writes no boot pointer, does not
\* restart, and clears the flag.
C7_FlagClearedWhenBootUnchanged ==
    (pc = "done" /\ ended = "boot_unchanged")
        => /\ boot_partition = before.boot
           /\ ~boot_written
           /\ nvs_do_update # <<1>>

\* C8: with a release tag that is absent or does not parse, no signature or
\* firmware transfer is started and slots, boot pointer, record and flag
\* stay as they were.
C8_InvalidTagStopsCheck ==
    /\ pc \in Transferring => rel.valid
    /\ (checks > 0 /\ pc \in {"compare", "assets"} \cup Transferring
          /\ ~rel.valid) => persistent = <<before.ver, before.part,
                                           before.flag, before.boot,
                                           before.slot>>

\* a is not newer than b, component by component
NotNewer(a, b) ==
    \/ a.maj < b.maj
    \/ a.maj = b.maj /\ a.min < b.min
    \/ a.maj = b.maj /\ a.min = b.min /\ a.pat <= b.pat

C10_SameTargetNoWrite ==
    [][(pc = "uptodate_boot" /\ boot_target' # NOPART
          /\ boot_target' = boot_partition)
         => /\ persistent' = persistent
            /\ ~boot_written'
            /\ ~partition_changed'
            /\ pc' = "done" /\ ret' = "ESP_OK"
            /\ ended' = "boot_unchanged"]_vars

\* C10 witness: a second check has repeated the call on a boot pointer that
\* already designated the located slot
C10_Witness ==
    /\ pc = "done"
    /\ ended = "boot_unchanged"
    /\ checks = 2
    /\ boot_target = boot_partition
    /\ persistent = <<before.ver, before.part, before.flag, before.boot,
                      before.slot>>

\* ------------------------------------------------------------------------
\* Properties of the rapid power-cycle detection
\* ------------------------------------------------------------------------

\* the restart count the key-value store holds
PersistedCount == restart_counter_load(nvs_restart_count)

Min(a, b) == IF a <= b THEN a ELSE b

Classifies == opc = "boot" /\ opc' # "boot"

\* C12: on a boot whose reset reason does not qualify, the persisted restart
\* count is 0 once the classification has run, and the classification of a
\* qualifying reset that finds the count at 0 persists 1.
C12_NonQualifyingClears ==
    /\ []((opc # "boot" /\ ~reason_counts_towards_threshold(reset_reason))
             => PersistedCount = 0)
    /\ [][(/\ Classifies
           /\ reason_counts_towards_threshold(reset_reason)
           /\ PersistedCount = 0) => PersistedCount' = 1]_vars

\* a panic in the middle of a run of power cycles has been classified, and 0
\* written over the count
C12_Witness ==
    /\ reset_reason = "ESP_RST_PANIC"
    /\ opc = "idle"
    /\ nvs_restart_count = <<0>>
    /\ streak = 0
    /\ ~restart_counter_timer

\* the steps in which the restart count may fall: (a) the classification of a
\* reset that does not qualify, (b) the stable-window timer firing, (c) the
\* factory reset taking over when the countdown has elapsed
ObservesNonQualifying ==
    Classifies /\ ~reason_counts_towards_threshold(reset_reason)

TimerFires ==
    opc = "idle" /\ opc' = "idle" /\ restart_counter_timer
        /\ ~restart_counter_timer'

FactoryResetRuns == opc \in {"countdown", "erasing"} /\ opc' # "boot"

\* (d) handle_power_cycle_sequence classifies the qualifying reset that
\* takes the count above the maximum
ExceedsMaximum ==
    /\ Classifies
    /\ variant = "main"
    /\ reason_counts_towards_threshold(reset_reason)
    /\ PersistedCount = RESTART_COUNTER_THRESHOLD_MAX

C14_TimerClearsCount ==
    (/\ variant = "main"
     /\ opc = "idle"
     /\ reason_counts_towards_threshold(reset_reason)
     /\ PersistedCount > 0
     /\ PersistedCount < RESTART_COUNTER_THRESHOLD_MIN)
        ~> (PersistedCount = 0 \/ opc = "boot")

\* the timer armed by a qualifying boot below the minimum has fired
C14_Witness ==
    /\ variant = "main"
    /\ opc = "idle"
    /\ reason_counts_towards_threshold(reset_reason)
    /\ reached > 0
    /\ reached < RESTART_COUNTER_THRESHOLD_MIN
    /\ nvs_restart_count = <<0>>
    /\ ~restart_counter_timer

\* the factory-reset task has erased the key-value store, the boot pointer
\* and every OTA slot but the running one
Erased ==
    /\ nvs_restart_count = <<>>
    /\ nvs_installed_ver = <<>>
    /\ nvs_installed_part = <<>>
    /\ nvs_do_update = <<>>
    /\ boot_partition = FACTORY
    /\ \A s \in OtaSlots \ {running} : slot[s] = NoImage

\* the device has been reset by its environment, not by esp_restart
ResetFromOutside == opc = "boot" /\ reset_reason # "ESP_RST_SW"

\* C15: when the tenth qualifying reset in a row has been classified by the
\* lifecycle manager, the countdown is running; the device staying powered,
\* the countdown ends, the erasure is carried out, and the device restarts.
C15_TenResetsEraseAndReboot ==
    /\ []((/\ variant = "main"
           /\ opc # "boot"
           /\ streak = RESTART_COUNTER_THRESHOLD_MIN)
             => (opc = "countdown" /\ reached = streak))
    /\ []((variant = "main" /\ opc = "restart") => Erased)
    /\ (variant = "main" /\ opc = "countdown")
           ~> (opc = "restart" \/ ResetFromOutside)
    /\ (variant = "main" /\ opc = "restart") ~> opc = "boot"

\* the lifecycle manager has restarted after a factory reset that ran from
\* an OTA slot
C15_Witness ==
    /\ variant = "main"
    /\ opc = "boot"
    /\ reset_reason = "ESP_RST_SW"
    /\ deferred # NOPART
    /\ running = FACTORY
    /\ nvs_restart_count = <<>>
    /\ nvs_installed_ver = <<>>
    /\ \A s \in OtaSlots \ {deferred} : slot[s] = NoImage

\* C16: the step in which the factory-reset task erases leaves the OTA slot
\* the code runs from as it was and records it in the deferred-erase marker,
\* and leaves every other OTA slot erased.
C16_RunningSlotDeferred ==
    [][(opc = "erasing" /\ opc' = "restart")
           => /\ slot'[running] = slot[running]
              /\ running \in OtaSlots
                     => factory_reset_pending_ota_subtype' = running
              /\ \A s \in OtaSlots \ {running} : slot'[s] = NoImage]_vars

\* a factory reset running from ota_1 has erased ota_0, which held an
\* application, and has kept and recorded ota_1
C16_Witness ==
    /\ opc = "restart"
    /\ running = "ota_1"
    /\ slot["ota_1"].valid
    /\ slot["ota_0"] = NoImage
    /\ factory_reset_pending_ota_subtype = "ota_1"

\* C17: the slot a factory reset deferred stays recorded in the marker,
\* through every reset, until it has been erased; the start-up code that
\* finds the marker set erases the slot and clears the marker when it no
\* longer runs from that slot, and leaves slot and marker alone when it
\* still does.
C17_DeferredEraseSurvivesReboots ==
    /\ [](deferred # NOPART => factory_reset_pending_ota_subtype = deferred)
    /\ [][(/\ Classifies
           /\ variant = "main"
           /\ factory_reset_pending_ota_subtype \in OtaSlots)
              => IF running # factory_reset_pending_ota_subtype
                 THEN /\ slot'[factory_reset_pending_ota_subtype] = NoImage
                      /\ factory_reset_pending_ota_subtype' = NOPART
                 ELSE /\ slot' = slot
                      /\ UNCHANGED factory_reset_pending_ota_subtype]_vars

\* the lifecycle manager classifies a qualifying reset that interrupted the
\* countdown of the boot before: the count it finds is at or above the minimum
CountdownInterrupted ==
    /\ Classifies
    /\ variant = "main"
    /\ reason_counts_towards_threshold(reset_reason)
    /\ PersistedCount >= RESTART_COUNTER_THRESHOLD_MIN

FactoryResetUnderWay == opc \in {"countdown", "erasing", "restart"}

CallbackDue == IF s_factory_reset_cb THEN 1 ELSE 0

\* C20 (as stated): the registered callback has been executed only on a boot
\* whose qualifying reset brought the counter to the trigger count itself.
C20_CallbackAtTriggerCountOnly ==
    cb_runs > 0 => reached = CONFIG_LCM_FACTORY_RESET_TRIGGER_COUNT

\* C20 (amended): lifecycle_log_post_reset_state executes the registered
\* callback exactly on the boots whose qualifying reset brings the counter to
\* the trigger count or above it, after the countdown and at most once per
\* boot; on every other boot, and after NULL was registered, it executes no
\* callback.
C20_CallbackFromTriggerCount ==
    /\ [](cb_runs <= 1)
    /\ [](cb_runs > 0
             => /\ variant = "component"
                /\ s_factory_reset_cb
                /\ reason_counts_towards_threshold(reset_reason)
                /\ reached >= CONFIG_LCM_FACTORY_RESET_TRIGGER_COUNT
                /\ opc \in {"idle", "restart"})
    /\ []((/\ variant = "component"
           /\ reached >= CONFIG_LCM_FACTORY_RESET_TRIGGER_COUNT)
             => \/ opc = "countdown" /\ cb_runs = 0
                \/ opc \in {"idle", "restart"} /\ cb_runs = CallbackDue)

\* power was cycled during the countdown of the tenth boot; the eleventh
\* boot has executed the callback
C20_Witness ==
    /\ variant = "component"
    /\ reached = CONFIG_LCM_FACTORY_RESET_TRIGGER_COUNT + 1
    /\ cb_runs = 1

\* ------------------------------------------------------------------------
\* Properties of the functions studied on their own
\* ------------------------------------------------------------------------

\* a version text as the specification asks for it: an optional v or V, then
\* three non-empty runs of digits separated by two dots, and nothing else
IsVersionText(str) ==
    /\ str # NULLSTR
    /\ LET s == IF Len(str) > 0 /\ str[1] \in {"v", "V"} THEN Tail(str)
                ELSE str
       IN  \E i, j \in 1..Len(s) :
               /\ 1 < i
               /\ i + 1 < j
               /\ j < Len(s)
               /\ \A k \in 1..Len(s) :
                      IF k = i \/ k = j THEN s[k] = "." ELSE IsDigit(s[k])

\* C21: parse_version returns a value for every argument; it reports valid
\* exactly for an optional v or V followed by three dot-separated unsigned
\* integers, and every other argument yields (0,0,0) and not valid;
\* "garbage" is not valid, "v1.2.3" is (1,2,3).
C21_ParseVersionStrict ==
    /\ call_res # <<>>
           => /\ call_res[1].valid \in BOOLEAN
              /\ call_res[1].valid <=> IsVersionText(call_arg)
              /\ ~call_res[1].valid
                     => (/\ call_res[1].maj = 0
                         /\ call_res[1].min = 0
                         /\ call_res[1].pat = 0)
    /\ parse_version(<<"g", "a", "r", "b", "a", "g", "e">>) = InvalidVersion
    /\ parse_version(<<"v", "1", ".", "2", ".", "3">>)
           = [valid |-> TRUE, maj |-> 1, min |-> 2, pat |-> 3]

\* lexicographic order on (major, minor, patch)
LexLess(a, b) ==
    \/ a.maj < b.maj
    \/ a.maj = b.maj /\ a.min < b.min
    \/ a.maj = b.maj /\ a.min = b.min /\ a.pat < b.pat

\* C22: for version triples a, b and c the result of cmp_version is -1, 0 or
\* 1; it is negative, zero or positive exactly when a < b, a = b or a > b in
\* lexicographic order; it is antisymmetric and transitive.
C22_CmpVersionTotalOrder ==
    call_res # <<>> /\ Len(call_arg) = 3 /\ call_arg[1] \in VersionTriples
        => LET a == call_arg[1]
               b == call_arg[2]
               r == call_res[1]
           IN  /\ r.ab \in {-1, 0, 1}
               /\ r.ab < 0 <=> LexLess(a, b)
               /\ r.ab = 0 <=> a = b
               /\ r.ab > 0 <=> LexLess(b, a)
               /\ r.ab < 0 <=> r.ba > 0
               /\ (r.ab < 0 /\ r.bc < 0) => r.ac < 0

----------------------------------------------------------------------------
\* The button task beside the update check (src/unnamed/part_007).  app_main
\* creates button_task and registers wifi_ready, which runs
\* github_update_if_needed on the network task; a long press makes
\* button_task create factory_reset_task.  Nothing in the file (no mutex, no
\* semaphore, no flag read by the check) orders the two, so the steps of the
\* check and the steps of factory_reset_task interleave freely.  opc is the
\* position of factory_reset_task: "idle" (not created), "erasing" (created,
\* factory_reset_requested set), "restart" (store erased, one second before
\* esp_restart).

\* the task and the rest of the detection state after a reboot
TaskGone ==
    /\ opc' = "idle"
    /\ UNCHANGED <<variant, nvs_restart_count, restart_counter_value,
                   restart_counter_timer, reset_reason,
                   factory_reset_pending_ota_subtype, s_factory_reset_cb,
                   streak, reached, cb_runs, deferred>>
    /\ WipeStill
    /\ UNCHANGED <<calc, units>>

\* the steps of the check, of the running application and of the button
\* task leave the other's state alone
PipelineStep ==
    \/ CheckBegin
    \/ CompareVersions
    \/ SetBootForInstalled
    \/ ClearFlagAfterBoot
    \/ ScanAssets
    \/ DownloadSignature
    \/ SelectUpdatePartition
    \/ OtaTransfer
    \/ OtaFinish
    \/ VerifyImage
    \/ StoreInstalled
    \/ ClearFlagAfterUpdate

\* button_task sees a long press and calls factory_reset(): the request is
\* remembered and the task created, once
ButtonLongPress ==
    /\ running = FACTORY
    /\ opc = "idle"
    /\ opc' = "erasing"
    /\ UNCHANGED <<persistent, running, pc, frame, ret, history, ended,
                   checks, boots, calc, units>>
    /\ UNCHANGED <<variant, nvs_restart_count, restart_counter_value,
                   restart_counter_timer, reset_reason,
                   factory_reset_pending_ota_subtype, s_factory_reset_cb,
                   streak, reached, cb_runs, deferred>>
    /\ WipeStill

\* factory_reset_task up to its delay: esp_wifi_restore and
\* clear_nvs_storage (nvs_flash_deinit, nvs_flash_erase, nvs_flash_init),
\* after which no key of the store is present
ButtonFactoryResetTask ==
    /\ opc = "erasing"
    /\ opc' = "restart"
    /\ nvs_installed_ver' = <<>>
    /\ nvs_installed_part' = <<>>
    /\ nvs_do_update' = <<>>
    /\ nvs_restart_count' = <<>>
    /\ UNCHANGED <<boot_partition, slot, running, pc, frame, ret, history,
                   ended, checks, boots, calc, units>>
    /\ UNCHANGED <<variant, restart_counter_value, restart_counter_timer,
                   reset_reason, factory_reset_pending_ota_subtype,
                   s_factory_reset_cb, streak, reached, cb_runs, deferred>>
    /\ WipeStill

\* esp_restart, at the end of factory_reset_task or of the check
ButtonRestart ==
    /\ pc = "restart" \/ opc = "restart"
    /\ ended' = "restart"
    /\ RebootDevice
    /\ TaskGone

\* power is lost and restored
ButtonPowerLoss ==
    /\ pc # "restart"
    /\ opc # "restart"
    /\ ended' = "power_loss"
    /\ RebootDevice
    /\ TaskGone

ButtonInit == Init

ButtonNext ==
    \/ PipelineStep
    \/ RequestUpdateFlag
    \/ RequestUpdateBoot
    \/ ButtonLongPress
    \/ ButtonFactoryResetTask
    \/ ButtonRestart
    \/ ButtonPowerLoss

ButtonSpec == ButtonInit /\ [][ButtonNext]_vars

\* the keys of the store the check writes, and the OTA slots
PipelineStores == <<nvs_installed_ver, nvs_installed_part, nvs_do_update, slot>>

\* the erasure of the store by factory_reset_task
ErasureRuns == opc = "erasing" /\ opc' = "restart"

\* C23: in every interleaving of the button task and the update task the
\* erasure of the factory reset never runs while the check is between the
\* start of a transfer and its last write to the store, and from the erasure
\* to the reboot nothing writes to the store or to an OTA slot.
C23_ErasureExcludesUpdate ==
    /\ [][ErasureRuns => pc \notin Transferring]_vars
    /\ [][(opc = "restart" /\ opc' = "restart")
            => UNCHANGED PipelineStores]_vars

----------------------------------------------------------------------------
\* The factory reset of the lifecycle manager on flash whose erasures can
\* fail (src/unnamed/part_006): the detection of the lifecycle manager with
\* FaultyFactoryResetTask in the place of FactoryResetTask.

FaultInit == DetectionInit /\ variant = "main"

FaultNext ==
    \/ QualifyingReset
    \/ OtherReset
    \/ EspRestart
    \/ AppMain
    \/ RestartCounterTimeout
    \/ CountdownTick
    \/ CountdownElapsed
    \/ FaultyFactoryResetTask

FaultSpec == FaultInit /\ [][FaultNext]_vars

\* with the progress of DetectionLive
FaultLive ==
    /\ FaultSpec
    /\ WF_vars(AppMain)
    /\ WF_vars(RestartCounterTimeout)
    /\ WF_vars(CountdownTick)
    /\ WF_vars(CountdownElapsed)
    /\ WF_vars(FaultyFactoryResetTask)
    /\ WF_vars(EspRestart)

\* the regions a factory reset run from the current partition has to erase
RegionsToErase == {"nvs", "otadata"} \cup (OtaSlots \ {running})

\* factory_reset_task runs
TaskRuns == opc = "erasing" /\ opc' \notin {"erasing", "boot"}

\* C24: whichever erasures or verifications fail, factory_reset_task has
\* tried the key-value store, the boot-pointer region and every OTA slot
\* but the running one when it ends, and it ends at its restart; the device
\* staying powered, the restart follows.
C24_FailureDoesNotAbort ==
    /\ [][TaskRuns => (attempted' = RegionsToErase /\ opc' = "restart")]_vars
    /\ (opc = "erasing") ~> (opc = "boot")

\* a factory reset in which an erasure failed has restarted the device
C24_Witness ==
    /\ opc = "boot"
    /\ reset_reason = "ESP_RST_SW"
    /\ failed # {}
    /\ attempted = RegionsToErase \cup {s \in OtaSlots : s = deferred}
    /\ failed # attempted

\* region r reads back erased
ReadsErased(r) ==
    IF r = "nvs"
    THEN /\ nvs_restart_count = <<>>
         /\ nvs_installed_ver = <<>>
         /\ nvs_installed_part = <<>>
         /\ nvs_do_update = <<>>
    ELSE IF r = "otadata" THEN boot_partition = FACTORY
    ELSE slot[r] = NoImage

\* the regions whose erasure failed in the last factory reset and that
\* still hold data
Residue == {r \in failed : ~ReadsErased(r)}

\* C25: after a factory reset in which the erasure or the verification of a
\* region failed, every boot that finds the region still holding data
\* leaves the retry pending (factory_reset_verification_pending set).
C25_FailedEraseStaysPending ==
    (opc \in {"idle", "countdown"} /\ Residue # {})
        => factory_reset_verification_pending

----------------------------------------------------------------------------
\* The detection of the lifecycle manager on a key-value store whose writes
\* can fail: FaultyAppMain in the place of AppMain.

StoreFaultInit == DetectionInit /\ variant = "main"

StoreFaultNext ==
    \/ QualifyingReset
    \/ OtherReset
    \/ EspRestart
    \/ FaultyAppMain
    \/ RestartCounterTimeout
    \/ CountdownTick
    \/ CountdownElapsed
    \/ FactoryResetTask

StoreFaultSpec == StoreFaultInit /\ [][StoreFaultNext]_vars

\* start-up code has advanced the count in RAM and the write of the
\* advanced count to the store has failed
CountStoreFails ==
    /\ Classifies
    /\ reason_counts_towards_threshold(reset_reason)
    /\ restart_counter_value' # 0
    /\ nvs_restart_count' # <<restart_counter_value'>>

\* the check tries to clear a set UpdateRequestFlag and the flag stays set
FlagClearFails ==
    /\ pc \in {"clear_flag", "uptodate_clear"}
    /\ pc' # pc
    /\ nvs_do_update = <<1>>
    /\ nvs_do_update' = <<1>>

\* the first kind of write of C26
C26_CountFailureStops == [][CountStoreFails => opc' # "countdown"]_vars

\* the second kind of write of C26
C26_FlagFailureStops == [][FlagClearFails => pc' # "restart"]_vars

\* C26: when the write of the advanced restart count fails, the start-up
\* code does not go on to the countdown of the factory reset; when the
\* clearing of UpdateRequestFlag fails, the check does not go on to restart
\* the device.
C26_WriteFailuresPropagate ==
    /\ C26_CountFailureStops
    /\ C26_FlagFailureStops

----------------------------------------------------------------------------
\* Further properties of the update pipeline

\* the endings of a check that found nothing to install: "no_release" is the
\* return after a failed request, an unparsable feed or a feed without a
\* stable release, "missing_assets" the return after the asset scan
TransientEndings == {"no_release", "missing_assets"}

\* C27: a check that ends because of a network failure, an unparsable feed,
\* no qualifying release or a missing asset leaves InstalledFirmwareRecord,
\* UpdateRequestFlag, the boot pointer and every OTA slot as they were when
\* the check began.
C27_TransientEndingsMutateNothing ==
    (pc = "done" /\ ended \in TransientEndings) => Snapshot = before

\* C27 witness: a requested check of a device with a stored record has ended
\* at the asset scan
C27_Witness ==
    /\ pc = "done"
    /\ ended = "missing_assets"
    /\ before.flag = <<1>>
    /\ before.ver # <<>>
    /\ before.boot = FACTORY
    /\ Snapshot = before

\* a step of lifecycle_request_update_and_reboot after its flag write
RequestEnds == pc = "app_req_boot" /\ pc' # "app_req_boot"

\* the device starts afresh
Rebooted == boots' = boots + 1

\* C28: lifecycle_request_update_and_reboot never returns to its caller: the
\* step after the flag write, whatever fails in it, ends at esp_restart (or
\* the power fails first), and once the flag write is over that step is
\* taken.
C28_RequestEndsInRestart ==
    /\ [][RequestEnds => (pc' = "restart" \/ Rebooted)]_vars
    /\ (pc = "app_req_boot") ~> (pc = "restart" \/ running = FACTORY
                                  \/ pc = "app")

\* C28 witness: the flag could not be stored and the boot pointer could not
\* be moved, and the application is at its esp_restart
C28_Witness ==
    /\ pc = "restart"
    /\ running \in OtaSlots
    /\ boot_written
    /\ boot_partition = running
    /\ nvs_do_update # <<1>>

\* C29: when lifecycle_request_update_and_reboot has moved the boot pointer
\* to the factory partition and goes on to restart, do_update is stored
\* as 1.
C29_BootMovedOnlyWithFlag ==
    [][(RequestEnds /\ pc' = "restart" /\ boot_partition' = FACTORY)
         => nvs_do_update = <<1>>]_vars

\* the lifecycle manager, started on behalf of a request, has found the
\* release not newer than the installed version, and the record names the
\* slot that holds the installed firmware
RequestedAndUpToDate ==
    /\ running = FACTORY
    /\ pc = "uptodate_boot"
    /\ update_requested
    /\ cur.valid
    /\ \E s \in OtaSlots :
         /\ slot[s].valid
         /\ nvs_installed_part = <<s>>
         /\ parse_version(slot[s].ver) = cur

\* the device runs, or is about to start, the firmware of an OTA slot with
\* UpdateRequestFlag not set
BackInApplication ==
    /\ nvs_do_update # <<1>>
    /\ \/ running \in OtaSlots
       \/ pc = "restart" /\ BootTarget(slot, boot_partition) \in OtaSlots

\* C30: a requested check that finds nothing newer, on a device whose
\* record names the slot of the installed firmware, is followed by the
\* restart into an OTA slot with UpdateRequestFlag cleared, unless the power
\* fails first.
C30_RequestedCheckReturnsToApp ==
    RequestedAndUpToDate ~> (BackInApplication \/ ended = "power_loss")

\* ------------------------------------------------------------------------
\* The reset counters that run before the lifecycle manager
\* ------------------------------------------------------------------------

\* lcm_fast_reset: P.threshold and P.stable_ms
P_threshold == 10

P_stable_ms == 8000

\* lcm_reset_sentry
CONFIG_LCM_HW_RESET_WINDOW_MS == 12000

CONFIG_LCM_HW_RESET_TARGET == 10

\* bootloader_after_init
CONFIG_LCM_RESTART_THRESHOLD == 10

CONFIG_LCM_RESTART_COUNTER_TIMEOUT_MS == 5000

\* the reading of the RTC clock, in microseconds, up to which a reset that
\* keeps the clock running is modelled
MaxRtcUs == 14100000

CounterUnits == {"fast_reset", "sentry", "hook"}

\* the real time between two resets, in milliseconds: shorter than every
\* window configured, and longer than every one
Gaps == {1000, 13000}

\* the reset reasons the units read: esp_reset_reason() in the application,
\* esp_rom_get_reset_reason(0) in the loader
UnitReasons(u) ==
    IF u = "hook"
    THEN {"RESET_REASON_CHIP_POWER_ON", "RESET_REASON_CORE_SW",
          "RESET_REASON_CORE_DEEP_SLEEP"}
    ELSE QualifyingReasons \cup OtherReasons

PowerOn(u) ==
    IF u = "hook" THEN "RESET_REASON_CHIP_POWER_ON" ELSE "ESP_RST_POWERON"

Software(u) == IF u = "hook" THEN "RESET_REASON_CORE_SW" ELSE "ESP_RST_SW"

is_supported_reset_reason(reason) ==
    reason \in {"RESET_REASON_CHIP_POWER_ON", "RESET_REASON_CHIP_BROWN_OUT",
                "RESET_REASON_SYS_BROWN_OUT"}

\* esp_timer_get_time() / 1000 when lcm_reset_sentry runs: the milliseconds
\* since this boot began, which vary a little from boot to boot
SentryUptimes == {40, 41}

\* boot_time_us() when bootloader_after_init runs after a power-on reset:
\* the RTC counter starts at zero when power is applied, so the reading is
\* the time the ROM and the loader took, which varies a little
HookUptimes == {30000, 30007}

\* the readings of the clock a unit can take on the boot after a reset:
\* lcm_fast_reset reads none; the RTC counter keeps running through a reset
\* that is not a power-on reset
BootReadings(u, reason, gap, prev) ==
    IF u = "sentry" THEN SentryUptimes
    ELSE IF u = "hook"
    THEN IF reason = PowerOn(u) THEN HookUptimes
         ELSE {x \in {prev + gap * 1000} : x <= MaxRtcUs}
    ELSE {0}

\* lcm_fast_reset_internal_init, with factory_reset_now where the
\* threshold is reached: the keys it leaves, whether the stable-window
\* timer is started, whether it handed over to the factory image.
\* erase_ok is the outcome of nvs_flash_erase
lcm_fast_reset_internal_init(count, erase_ok) ==
    IF count + 1 >= P_threshold
    THEN [count |-> IF erase_ok THEN 0 ELSE count + 1,
          armed |-> IF erase_ok THEN 0 ELSE 1,
          timer |-> FALSE, wiped |-> TRUE, erased |-> erase_ok,
          next |-> "restart"]
    ELSE [count |-> count + 1, armed |-> 1, timer |-> TRUE,
          wiped |-> FALSE, erased |-> FALSE, next |-> "running"]

\* (now - t0) > window_ms in uint64_t: where now < t0 the difference wraps
\* to a value near 2^64, which exceeds the window
WindowPassed(now, t0) ==
    IF now >= t0 THEN now - t0 > CONFIG_LCM_HW_RESET_WINDOW_MS ELSE TRUE

\* lcm_reset_sentry: the keys it leaves and whether it handed over.
\* erase_ok is the outcome of the nvs_erase_key calls and their commit
lcm_reset_sentry(cnt, t0, now, erase_ok) ==
    LET fresh == t0 = 0 \/ WindowPassed(now, t0)
        c == (IF fresh THEN 0 ELSE cnt) + 1
        t == IF fresh THEN now ELSE t0
    IN  IF c < CONFIG_LCM_HW_RESET_TARGET
        THEN [cnt |-> c, t0 |-> t, wiped |-> FALSE, next |-> "running"]
        ELSE [cnt |-> IF erase_ok THEN 0 ELSE c,
              t0 |-> IF erase_ok THEN 0 ELSE t,
              wiped |-> TRUE, next |-> "restart"]

\* bootloader_after_init up to the call of perform_factory_reset: the record
\* it leaves in the lcm_state sector and whether the threshold is reached.
\* The count stays far below UINT32_MAX
bootloader_after_init(state, reason, now_us) ==
    LET previous_count == IF state.valid THEN state.restart_count ELSE 0
        last_us == IF state.valid THEN state.last_timestamp_us ELSE 0
        elapsed_valid == last_us # 0 /\ now_us >= last_us
        elapsed_ms == IF elapsed_valid THEN (now_us - last_us) \div 1000
                      ELSE 0
        new_count ==
            IF elapsed_valid
               /\ elapsed_ms <= CONFIG_LCM_RESTART_COUNTER_TIMEOUT_MS
            THEN previous_count + 1 ELSE 1
    IN  IF ~is_supported_reset_reason(reason)
        THEN [state |-> IF previous_count # 0
                        THEN [valid |-> TRUE, restart_count |-> 0,
                              last_timestamp_us |-> now_us]
                        ELSE state,
              wiped |-> FALSE, next |-> "running"]
        ELSE [state |-> [valid |-> TRUE, restart_count |-> new_count,
                         last_timestamp_us |-> now_us],
              wiped |-> new_count >= CONFIG_LCM_RESTART_THRESHOLD,
              next |-> IF new_count >= CONFIG_LCM_RESTART_THRESHOLD
                       THEN "wiping" ELSE "running"]

\* what the counters leave alone
UnitRest ==
    UNCHANGED <<running, pc, frame, ret, history, ended, checks, boots,
                orch, calc, dl, btn>>

\* the length the claimed rule gives the run of boots that the boot after
\* this reset belongs to, and the real time since the first boot of that
\* run: lcm_fast_reset counts power-on and external resets that come before
\* the stable window has passed, lcm_reset_sentry the boots within one
\* window of the first, bootloader_after_init the power-on resets that
\* each come within the timeout of the one before. Lengths stop at the
\* thresholds
RunAfter(u, reason, gap) ==
    LET base == IF wiped THEN 0 ELSE run_len
    IN  IF u = "sentry"
        THEN IF base = 0
                \/ since_first + gap > CONFIG_LCM_HW_RESET_WINDOW_MS
             THEN [len |-> 1, first |-> 0]
             ELSE [len |-> Min(base + 1, CONFIG_LCM_HW_RESET_TARGET),
                   first |-> since_first + gap]
        ELSE IF u = "hook"
        THEN [len |-> IF reason # PowerOn(u) THEN 0
                      ELSE IF base > 0
                              /\ gap <= CONFIG_LCM_RESTART_COUNTER_TIMEOUT_MS
                      THEN Min(base + 1, CONFIG_LCM_RESTART_THRESHOLD)
                      ELSE 1,
              first |-> 0]
        ELSE [len |-> IF reason \notin QualifyingReasons THEN 0
                      ELSE IF gap <= P_stable_ms
                      THEN Min(base + 1, P_threshold)
                      ELSE 1,
              first |-> 0]

\* the device starts after a reset that came gap milliseconds after the
\* one before
UnitResetWith(reason, gap) ==
    /\ boot_reason' = reason
    /\ upc' = "boot"
    /\ lcm_rst_timer' = FALSE
    /\ boot_now' \in BootReadings(unit, reason, gap, boot_now)
    /\ since_prev' = gap
    /\ run_len' = RunAfter(unit, reason, gap).len
    /\ since_first' = RunAfter(unit, reason, gap).first
    /\ boots_since_wipe' = IF wiped THEN 0 ELSE boots_since_wipe
    /\ wiped' = FALSE
    /\ UNCHANGED <<unit, lcm_rst_count, lcm_rst_armed, hw_rst_cnt, hw_rst_t0,
                   lcm_state, persistent>>
    /\ UnitRest

\* power is cycled, the reset pin is pulled, the firmware panics or wakes
\* from deep sleep. The stable-window timer of lcm_fast_reset has fired
\* exactly when the device has run for longer than P.stable_ms
UnitReset ==
    /\ upc \in {"running", "stable", "wiping", "restart"}
    /\ \E reason \in UnitReasons(unit) \ {Software(unit)}, gap \in Gaps :
         /\ unit = "fast_reset" /\ upc \in {"running", "stable"}
                => (upc = "stable" <=> gap > P_stable_ms)
         /\ UnitResetWith(reason, gap)

\* esp_restart, or esp_rom_software_reset_system after the loader's
\* countdown of CONFIG_LCM_RESTART_THRESHOLD + 1 seconds and its last delay
UnitRestart ==
    /\ upc = "restart"
    /\ UnitResetWith(Software(unit), IF unit = "hook" THEN 13000 ELSE 1000)

\* lcm_fast_reset_init at the start of app_main
FastResetInit ==
    /\ unit = "fast_reset"
    /\ upc = "boot"
    /\ lcm_rst_count < MaxStreak
    /\ \E erase_ok \in BOOLEAN :
         \E r \in {lcm_fast_reset_internal_init(lcm_rst_count, erase_ok)} :
           /\ lcm_rst_count' = r.count
           /\ lcm_rst_armed' = r.armed
           /\ lcm_rst_timer' = r.timer
           /\ wiped' = r.wiped
           /\ upc' = r.next
           /\ nvs_installed_ver' =
                  IF r.erased THEN <<>> ELSE nvs_installed_ver
           /\ nvs_installed_part' =
                  IF r.erased THEN <<>> ELSE nvs_installed_part
           /\ nvs_do_update' = IF r.erased THEN <<>> ELSE nvs_do_update
           /\ boot_partition' = IF r.wiped THEN FACTORY ELSE boot_partition
    /\ boots_since_wipe' = Min(boots_since_wipe + 1, P_threshold)
    /\ UNCHANGED <<unit, boot_reason, boot_now, hw_rst_cnt, hw_rst_t0,
                   lcm_state, since_prev, since_first, run_len, slot>>
    /\ UnitRest

\* clear_counter_timer_cb: the device has stayed up for P.stable_ms
ClearCounterTimer ==
    /\ unit = "fast_reset"
    /\ upc = "running"
    /\ lcm_rst_timer
    /\ lcm_rst_count' = 0
    /\ lcm_rst_armed' = 0
    /\ lcm_rst_timer' = FALSE
    /\ upc' = "stable"
    /\ UNCHANGED <<unit, boot_reason, boot_now, hw_rst_cnt, hw_rst_t0,
                   lcm_state, since_prev, since_first, run_len,
                   boots_since_wipe, wiped, persistent>>
    /\ UnitRest

\* lcm_reset_sentry, run by the start-up code before app_main
ResetSentry ==
    /\ unit = "sentry"
    /\ upc = "boot"
    /\ hw_rst_cnt < MaxStreak
    /\ \E erase_ok \in BOOLEAN :
         \E r \in {lcm_reset_sentry(hw_rst_cnt, hw_rst_t0, boot_now,
                                    erase_ok)} :
           /\ hw_rst_cnt' = r.cnt
           /\ hw_rst_t0' = r.t0
           /\ wiped' = r.wiped
           /\ upc' = r.next
           /\ boot_partition' = IF r.wiped THEN FACTORY ELSE boot_partition
    /\ boots_since_wipe' =
           Min(boots_since_wipe + 1, CONFIG_LCM_HW_RESET_TARGET)
    /\ UNCHANGED <<unit, boot_reason, boot_now, lcm_rst_count, lcm_rst_armed,
                   lcm_rst_timer, lcm_state, since_prev, since_first,
                   run_len, nvs_installed_ver, nvs_installed_part,
                   nvs_do_update, slot>>
    /\ UnitRest

\* bootloader_after_init up to its return or the start of the countdown
BootloaderAfterInit ==
    /\ unit = "hook"
    /\ upc = "boot"
    /\ lcm_state.restart_count < MaxStreak
    /\ \E r \in {bootloader_after_init(lcm_state, boot_reason, boot_now)} :
         /\ lcm_state' = r.state
         /\ wiped' = r.wiped
         /\ upc' = r.next
    /\ boots_since_wipe' =
           Min(boots_since_wipe + 1, CONFIG_LCM_RESTART_THRESHOLD)
    /\ UNCHANGED <<unit, boot_reason, boot_now, lcm_rst_count, lcm_rst_armed,
                   lcm_rst_timer, hw_rst_cnt, hw_rst_t0, since_prev,
                   since_first, run_len, persistent>>
    /\ UnitRest

\* perform_factory_reset after its countdown: erase_factory_state wipes the
\* key-value store, the lcm_state sector, the boot pointer and both OTA
\* slots
PerformFactoryReset ==
    /\ unit = "hook"
    /\ upc = "wiping"
    /\ upc' = "restart"
    /\ lcm_state' = NoState
    /\ nvs_installed_ver' = <<>>
    /\ nvs_installed_part' = <<>>
    /\ nvs_do_update' = <<>>
    /\ boot_partition' = FACTORY
    /\ slot' = [s \in Slots |-> IF s \in OtaSlots THEN NoImage ELSE slot[s]]
    /\ UNCHANGED <<unit, boot_reason, boot_now, lcm_rst_count, lcm_rst_armed,
                   lcm_rst_timer, hw_rst_cnt, hw_rst_t0, since_prev,
                   since_first, run_len, boots_since_wipe, wiped>>
    /\ UnitRest

\* a device powered up after a long time off, with no count stored
RapidInit ==
    /\ DeviceAtRest
    /\ NoCall
    /\ unit \in CounterUnits
    /\ boot_reason = PowerOn(unit)
    /\ boot_now \in BootReadings(unit, boot_reason, 13000, 0)
    /\ upc = "boot"
    /\ lcm_rst_count = 0
    /\ lcm_rst_armed = 0
    /\ lcm_rst_timer = FALSE
    /\ hw_rst_cnt = 0
    /\ hw_rst_t0 = 0
    /\ lcm_state = NoState
    /\ since_prev = 13000
    /\ since_first = 0
    /\ run_len = 1
    /\ boots_since_wipe = 0
    /\ wiped = FALSE
    /\ DlAtRest
    /\ BtnAtRest

RapidNext ==
    \/ UnitReset
    \/ UnitRestart
    \/ FastResetInit
    \/ ClearCounterTimer
    \/ ResetSentry
    \/ BootloaderAfterInit
    \/ PerformFactoryReset

RapidSpec == RapidInit /\ [][RapidNext]_vars

\* C31: a boot that hands the device over to the factory image comes after
\* at least threshold-many boots since the hand-over before it, whether or
\* not the erasure of the store or of the counter keys succeeded
C31_NoRepeatedFactoryReset ==
    unit \in {"fast_reset", "sentry"} /\ wiped
        => boots_since_wipe >= IF unit = "sentry"
                               THEN CONFIG_LCM_HW_RESET_TARGET
                               ELSE P_threshold

\* C32: lcm_fast_reset_init advances its counter only on a boot that
\* follows a power-on or external reset, and the threshold is reached only
\* by a run of such resets
C32_OnlyQualifyingResetsCount ==
    /\ [][unit = "fast_reset" /\ lcm_rst_count' > lcm_rst_count
              => boot_reason \in QualifyingReasons]_vars
    /\ [](unit = "fast_reset" /\ wiped => run_len >= P_threshold)

\* C33: lcm_reset_sentry hands over only when the target number of boots
\* all fell within the window of real time that began with the first of
\* them, and a boot that comes more than the window after the one before
\* it is counted as the first
C33_SentryWindow ==
    unit = "sentry" /\ upc \in {"running", "restart"}
        => /\ wiped => run_len >= CONFIG_LCM_HW_RESET_TARGET
           /\ since_prev > CONFIG_LCM_HW_RESET_WINDOW_MS /\ ~wiped
                  => hw_rst_cnt = 1

\* C34: after bootloader_after_init has run on a power-on reset, the stored
\* restart_count is the number of power-on resets in a row that each came
\* within the timeout of the one before, and the factory reset is triggered
\* exactly when that number has reached the threshold
C34_HookCountsRapidPowerCycles ==
    /\ unit = "hook"
    /\ upc \in {"running", "wiping"}
    /\ boot_reason = "RESET_REASON_CHIP_POWER_ON"
    => /\ lcm_state.valid
       /\ lcm_state.restart_count = run_len
       /\ wiped <=> run_len >= CONFIG_LCM_RESTART_THRESHOLD

\* ------------------------------------------------------------------------
\* The countdown before the erasure
\* ------------------------------------------------------------------------

\* C35: in the lifecycle manager's app_main and in
\* lifecycle_log_post_reset_state, on a boot whose count has reached the
\* minimum threshold, a step that erases a region of the flash, or that
\* runs the factory-reset callback, is taken only after the countdown has
\* logged one line for each of its seconds; a reset during the countdown
\* erases nothing and starts a boot on which no line has been logged
C35_CountdownBeforeErasure ==
    /\ [][/\ variant \in {"main", "component"}
          /\ reached' >= RESTART_COUNTER_THRESHOLD_MIN
          /\ persistent' # persistent \/ cb_runs' > cb_runs
          => ticks = CONFIG_LCM_FACTORY_RESET_COUNTDOWN_SECONDS]_vars
    /\ [][opc = "countdown" /\ opc' = "boot"
          => ticks' = 0 /\ persistent' = persistent]_vars
    /\ [](/\ variant \in {"main", "component"}
          /\ opc \in {"erasing", "restart"}
          /\ reached >= RESTART_COUNTER_THRESHOLD_MIN
          => ticks = CONFIG_LCM_FACTORY_RESET_COUNTDOWN_SECONDS)

\* the lifecycle manager has erased its regions after a full countdown
C35_Witness ==
    /\ variant = "main"
    /\ opc = "restart"
    /\ reached >= RESTART_COUNTER_THRESHOLD_MIN
    /\ ticks = CONFIG_LCM_FACTORY_RESET_COUNTDOWN_SECONDS
    /\ attempted # {}
    /\ \A s \in OtaSlots \ {running} : ~slot[s].valid

\* ------------------------------------------------------------------------
\* The choice of the release
\* ------------------------------------------------------------------------

\* the arguments of the release selection: the channel, the response to the
\* first request and the response to the request for the list
ReleaseInit ==
    /\ DeviceAtRest
    /\ UnitsAtRest
    /\ call_arg \in [prerelease : BOOLEAN, json1 : JsonResponses,
                     json2 : JsonResponses]
    /\ call_res = <<>>

\* github_update_if_needed from its first request to "Release selected" or
\* its return
ChooseRelease ==
    /\ call_res = <<>>
    /\ call_res' = <<SelectRelease(call_arg.prerelease, call_arg.json1,
                                   call_arg.json2)>>
    /\ UNCHANGED call_arg
    /\ DeviceStill
    /\ UNCHANGED units

ReleaseNext == ChooseRelease

ReleaseSpec == ReleaseInit /\ [][ReleaseNext]_vars

\* C36: with prerelease = false the release selected is never marked
\* prerelease; where the latest-stable endpoint returns an object marked
\* prerelease, the release selected is the first entry of the list that is
\* not marked, and where the list has no such entry the call fails with no
\* release selected, hence with nothing transferred
C36_StableChannelSkipsPrereleases ==
    call_res # <<>> /\ ~call_arg.prerelease
        => /\ call_res[1].ok => ~call_res[1].rel.prerelease
           /\ call_arg.json1.kind = "object" /\ call_arg.json1.rel.prerelease
                  => LET list == call_arg.json2.list
                         stable == {i \in 1..Len(list) : ~list[i].prerelease}
                     IN  IF call_arg.json2.kind = "array" /\ stable # {}
                         THEN /\ call_res[1].ok
                              /\ \E i \in stable :
                                   /\ \A j \in stable : i <= j
                                   /\ call_res[1].rel = list[i]
                         ELSE /\ ~call_res[1].ok
                              /\ call_res[1].rel = NoRelease

\* the latest-stable endpoint returned a prerelease, and the second entry of
\* the list was selected because the first is a prerelease too
C36_Witness ==
    /\ call_res # <<>>
    /\ ~call_arg.prerelease
    /\ call_arg.json1.kind = "object"
    /\ call_arg.json1.rel.prerelease
    /\ Len(call_arg.json2.list) = 2
    /\ call_arg.json2.list[1].prerelease
    /\ ~call_arg.json2.list[2].prerelease
    /\ call_res[1].ok
    /\ call_res[1].rel = call_arg.json2.list[2]

\* ------------------------------------------------------------------------
\* The redirects of download_signature
\* ------------------------------------------------------------------------

\* the statuses download_signature follows as redirects
RedirectStatuses == {301, 302, 303, 307, 308}

\* the answers of the network to one pass of the loop: the connection
\* cannot be opened, the headers cannot be read, or a status arrives, with
\* or without a Location header that esp_http_client_set_redirection can
\* use, with a textual or a binary content type, and with a body of len
\* bytes
Answers ==
    {[open |-> o, fetch |-> FALSE, status |-> 0, location |-> FALSE,
      textual |-> FALSE, len |-> 0] : o \in BOOLEAN}
        \cup {[open |-> TRUE, fetch |-> TRUE, status |-> s, location |-> l,
               textual |-> FALSE, len |-> 0] :
                s \in RedirectStatuses, l \in BOOLEAN}
        \cup {[open |-> TRUE, fetch |-> TRUE, status |-> s,
               location |-> FALSE, textual |-> FALSE, len |-> 0] :
                s \in {204, 304, 403, 404, 500}}
        \cup {[open |-> TRUE, fetch |-> TRUE, status |-> 200,
               location |-> FALSE, textual |-> t, len |-> n] :
                t \in BOOLEAN, n \in {0, 1, SIG_SIZE, SIG_SIZE + 8}}

\* a loop that goes round as long as the server redirects
RedirectsUnbounded(n) == TRUE

\* the condition of the loop: while (redirects < 5)
redirects_left(n) == n < 5

\* one pass of the loop of download_signature with n redirects followed so
\* far: where it goes next, the count of redirects, the state of the client
\* handle, and what the call returns and stores through out_len
signature_attempt(n, a, buf_len) ==
    LET Returned(e, l) ==
            [next |-> "returned", redirects |-> n, client |-> "released",
             status |-> a.status, out_len |-> l, err |-> e]
        r == IF a.len < buf_len THEN a.len ELSE buf_len
    IN  IF ~a.open THEN Returned("ESP_ERR_HTTP_CONNECT", 0)
        ELSE IF ~a.fetch THEN Returned("ESP_FAIL", 0)
        ELSE IF a.status \in RedirectStatuses
        THEN IF ~a.location THEN Returned("ESP_FAIL", 0)
             ELSE [next |-> "loop", redirects |-> n + 1, client |-> "held",
                   status |-> a.status, out_len |-> 0, err |-> "none"]
        ELSE IF a.status # 200 THEN Returned("ESP_FAIL", 0)
        ELSE IF a.textual THEN Returned("ESP_FAIL", 0)
        ELSE IF r <= 0 THEN Returned("ESP_FAIL", 0)
        ELSE Returned("ESP_OK", r)

\* a call of download_signature is about to be made
DlInit ==
    /\ DeviceAtRest
    /\ NoCall
    /\ CountersAtRest
    /\ BtnAtRest
    /\ dl_pc = "call"
    /\ client = "none"
    /\ redirects = 0
    /\ status = 0
    /\ out_len = 0
    /\ dl_err = "none"

DlRest ==
    /\ DeviceStill
    /\ UNCHANGED <<calc, counters, btn>>

\* esp_http_client_init and esp_http_client_set_header: the handle is
\* obtained, or the call returns ESP_FAIL without one
DownloadBegin ==
    /\ dl_pc = "call"
    /\ \E init_ok \in BOOLEAN :
         IF init_ok
         THEN /\ dl_pc' = "loop"
              /\ client' = "held"
              /\ UNCHANGED dl_err
         ELSE /\ dl_pc' = "returned"
              /\ client' = "none"
              /\ dl_err' = "ESP_FAIL"
    /\ UNCHANGED <<redirects, status, out_len>>
    /\ DlRest

\* one pass of the loop
DownloadAttempt ==
    /\ dl_pc = "loop"
    /\ redirects_left(redirects)
    /\ \E a \in Answers :
         \E t \in {signature_attempt(redirects, a, SIG_SIZE)} :
           /\ dl_pc' = t.next
           /\ redirects' = t.redirects
           /\ client' = t.client
           /\ status' = t.status
           /\ out_len' = t.out_len
           /\ dl_err' = t.err
    /\ DlRest

\* the loop is left: "Too many redirects"
DownloadGiveUp ==
    /\ dl_pc = "loop"
    /\ ~redirects_left(redirects)
    /\ dl_pc' = "returned"
    /\ client' = "released"
    /\ dl_err' = "ESP_FAIL"
    /\ UNCHANGED <<redirects, status, out_len>>
    /\ DlRest

DlNext ==
    \/ DownloadBegin
    \/ DownloadAttempt
    \/ DownloadGiveUp

DlSpec == DlInit /\ [][DlNext]_vars

\* every call of the HTTP client returns, within its timeout, so each step
\* of download_signature is taken once it can be
DlLive ==
    /\ DlSpec
    /\ WF_vars(DownloadBegin)
    /\ WF_vars(DownloadAttempt)
    /\ WF_vars(DownloadGiveUp)

\* C37: download_signature returns whatever the server answers; it follows
\* at most five redirects, and when it has returned the client handle is
\* released and, after five redirects, the value returned is a failure
C37_DownloadSignatureTerminates ==
    /\ <>(dl_pc = "returned")
    /\ [](redirects <= 5)
    /\ [](dl_pc = "returned"
            => /\ client # "held"
               /\ redirects = 5 => dl_err = "ESP_FAIL"
               /\ dl_err = "ESP_OK" <=> out_len > 0)

\* five redirects were followed and the call gave up
C37_Witness ==
    /\ dl_pc = "returned"
    /\ redirects = 5
    /\ status \in RedirectStatuses
    /\ client = "released"
    /\ dl_err = "ESP_FAIL"

\* ------------------------------------------------------------------------
\* The lifecycle button
\* ------------------------------------------------------------------------

DEFAULT_DOUBLE_CLICK_US == 400000

DEFAULT_LONG_PRESS_US == 2000000

\* the step of the clock, in microseconds: edges of the button lie at least
\* this far apart, far more than the debounce time, and the task polls many
\* times within it
TickUs == 200000

\* the presses and the steps of the clock modelled
MaxPresses == 2

MaxButtonTicks == 18

ButtonStatics ==
    [start |-> s_press_start_time_us, last_release |-> s_last_release_time_us,
     count |-> s_press_count, waiting |-> s_waiting_for_second_press,
     double |-> s_double_press_detected]

\* button_task on an edge taken from the queue at time now, with pressed
\* the level read: the statics it leaves and the events it dispatches
button_edge(st, pressed, now) ==
    IF pressed
    THEN [st |-> [st EXCEPT !.start = now, !.count = st.count + 1,
                            !.double = FALSE, !.waiting = FALSE],
          out |-> <<>>]
    ELSE IF st.start < 0 THEN [st |-> st, out |-> <<>>]
    ELSE IF now - st.start >= DEFAULT_LONG_PRESS_US
    THEN [st |-> [st EXCEPT !.start = -1, !.waiting = FALSE, !.count = 0],
          out |-> <<"LONG">>]
    ELSE IF st.count = 1
    THEN [st |-> [st EXCEPT !.start = -1, !.waiting = TRUE,
                            !.last_release = now],
          out |-> <<>>]
    ELSE IF st.count = 2
    THEN IF now - st.last_release <= DEFAULT_DOUBLE_CLICK_US
         THEN [st |-> [st EXCEPT !.start = -1, !.double = TRUE,
                                 !.waiting = FALSE, !.count = 0],
               out |-> <<"DOUBLE">>]
         ELSE [st |-> [st EXCEPT !.start = -1, !.waiting = FALSE,
                                 !.count = 0],
               out |-> <<>>]
    ELSE IF st.count > 2
    THEN [st |-> [st EXCEPT !.start = -1, !.waiting = FALSE, !.count = 0],
          out |-> <<>>]
    ELSE [st |-> [st EXCEPT !.start = -1], out |-> <<>>]

\* button_task after the queue has been looked at: the test of the
\* double-click window
button_poll(st, now) ==
    IF st.waiting /\ now - st.last_release > DEFAULT_DOUBLE_CLICK_US
    THEN [st |-> [st EXCEPT !.waiting = FALSE, !.count = 0],
          out |-> IF ~st.double /\ st.count = 1 THEN <<"SINGLE">> ELSE <<>>]
    ELSE [st |-> st, out |-> <<>>]

\* one pass of the loop of button_task that finds an edge in the queue
button_task(st, pressed, now) ==
    IF ~pressed /\ st.start < 0 THEN [st |-> st, out |-> <<>>] ELSE
    [st |-> button_poll(button_edge(st, pressed, now).st, now).st,
     out |-> button_edge(st, pressed, now).out
               \o button_poll(button_edge(st, pressed, now).st, now).out]

BtnInit ==
    /\ DeviceAtRest
    /\ NoCall
    /\ CountersAtRest
    /\ DlAtRest
    /\ BtnAtRest

BtnRest ==
    /\ DeviceStill
    /\ UNCHANGED <<calc, counters, dl>>

\* the statics and the events after a pass r of the loop
Passed(r) ==
    /\ s_press_start_time_us' = r.st.start
    /\ s_last_release_time_us' = r.st.last_release
    /\ s_press_count' = r.st.count
    /\ s_waiting_for_second_press' = r.st.waiting
    /\ s_double_press_detected' = r.st.double
    /\ events' = events \o r.out

\* the time of the last edge of the button, -1 before the first
LastEdge ==
    IF presses = <<>> THEN -1
    ELSE IF btn_down THEN presses[Len(presses)].down
    ELSE presses[Len(presses)].up

\* the button goes down: button_isr_handler queues the edge and button_task
\* reads the level as pressed
PressButton ==
    /\ ~btn_down
    /\ Len(presses) < MaxPresses
    /\ btn_now > LastEdge
    /\ btn_down' = TRUE
    /\ presses' = Append(presses, [down |-> btn_now, up |-> -1])
    /\ Passed(button_task(ButtonStatics, TRUE, btn_now))
    /\ UNCHANGED btn_now
    /\ BtnRest

\* the button goes up
ReleaseButton ==
    /\ btn_down
    /\ btn_now > LastEdge
    /\ btn_down' = FALSE
    /\ presses' = [presses EXCEPT ![Len(presses)].up = btn_now]
    /\ Passed(button_task(ButtonStatics, FALSE, btn_now))
    /\ UNCHANGED btn_now
    /\ BtnRest

\* time passes with no edge, and button_task goes round its loop
ButtonTick ==
    /\ btn_now < MaxButtonTicks * TickUs
    /\ btn_now' = btn_now + TickUs
    /\ Passed(button_poll(ButtonStatics, btn_now + TickUs))
    /\ UNCHANGED <<btn_down, presses>>
    /\ BtnRest

BtnNext ==
    \/ PressButton
    \/ ReleaseButton
    \/ ButtonTick

BtnSpec == BtnInit /\ [][BtnNext]_vars

\* a press held for at least the long-press threshold
IsLong(p) == p.up - p.down >= DEFAULT_LONG_PRESS_US

\* the event one press on its own stands for
OnePress(p) == IF IsLong(p) THEN <<"LONG">> ELSE <<"SINGLE">>

\* the events the presses made stand for: a long press is LONG; a short
\* press followed within the double-click window by a short press is
\* DOUBLE, followed within the window by a long press it gives way to LONG,
\* and with no press within the window it is SINGLE
ExpectedEvents(ps) ==
    IF Len(ps) = 0 THEN <<>>
    ELSE IF Len(ps) = 1 THEN OnePress(ps[1])
    ELSE IF IsLong(ps[1]) THEN <<"LONG">> \o OnePress(ps[2])
    ELSE IF ps[2].down - ps[1].up > DEFAULT_DOUBLE_CLICK_US
    THEN <<"SINGLE">> \o OnePress(ps[2])
    ELSE IF IsLong(ps[2]) THEN <<"LONG">>
    ELSE <<"DOUBLE">>

\* the button is up and the double-click window has passed since
ClicksOver ==
    /\ ~btn_down
    /\ presses # <<>>
    /\ btn_now - presses[Len(presses)].up > DEFAULT_DOUBLE_CLICK_US

\* C38: once a click sequence is over, the events dispatched are exactly
\* those it stands for: SINGLE once for a short press alone, DOUBLE once
\* and no SINGLE for two short presses within the window, LONG once and
\* nothing else for a long press; no sequence ends without its event
C38_OneEventPerClickSequence ==
    ClicksOver => events = ExpectedEvents(presses)

\* ------------------------------------------------------------------------
\* html_escape
\* ------------------------------------------------------------------------

\* the bytes of the strings escaped: the five bytes html_escape replaces
\* and one it copies
EscapeChars == {"&", "<", ">", "\"", "'", "s"}

\* the longest string escaped
MaxEscapeLen == 3

EscapeInputs ==
    {NULLSTR} \cup UNION {[1..n -> EscapeChars] : n \in 0..MaxEscapeLen}

\* a byte copied as it is
CopyByte(c) == <<c>>

\* the bytes the switch of html_escape_into writes for the byte c
html_escape_bytes(c) ==
    CASE c = "&" -> <<"&", "a", "m", "p", ";">>
      [] c = "<" -> <<"&", "l", "t", ";">>
      [] c = ">" -> <<"&", "g", "t", ";">>
      [] c = "\"" -> <<"&", "q", "u", "o", "t", ";">>
      [] c = "'" -> <<"&", "#", "3", "9", ";">>
      [] OTHER -> <<c>>

RECURSIVE html_escape_required_len(_)

html_escape_required_len(src) ==
    IF src = <<>> THEN 0
    ELSE (CASE Head(src) = "&" -> 5
            [] Head(src) \in {"<", ">"} -> 4
            [] Head(src) = "\"" -> 6
            [] Head(src) = "'" -> 5
            [] OTHER -> 1)
         + html_escape_required_len(Tail(src))

RECURSIVE html_escape_write(_)

\* the loop of html_escape_into over the bytes of src
html_escape_write(src) ==
    IF src = <<>> THEN <<>>
    ELSE html_escape_bytes(Head(src)) \o html_escape_write(Tail(src))

\* html_escape_into with a buffer of dst_len bytes: whether it succeeds,
\* the string it leaves in the buffer (NULLSTR where it writes none) and the
\* length it reports
html_escape_into(input, dst_len) ==
    IF dst_len = 0
    THEN [ok |-> FALSE, dst |-> NULLSTR, out_len |-> 0]
    ELSE IF input = NULLSTR
    THEN [ok |-> TRUE, dst |-> EMPTYSTR, out_len |-> 0]
    ELSE IF html_escape_required_len(input) + 1 > dst_len
    THEN [ok |-> FALSE, dst |-> NULLSTR,
          out_len |-> html_escape_required_len(input) + 1]
    ELSE [ok |-> TRUE, dst |-> html_escape_write(input),
          out_len |-> html_escape_required_len(input)]

\* html_escape, with malloc_ok telling whether malloc returns memory
html_escape(input, malloc_ok) ==
    IF ~malloc_ok THEN NULLSTR
    ELSE IF input = NULLSTR THEN EMPTYSTR
    ELSE IF ~html_escape_into(input,
                              html_escape_required_len(input) + 1).ok
    THEN NULLSTR
    ELSE html_escape_into(input, html_escape_required_len(input) + 1).dst

EscapeInit ==
    /\ DeviceAtRest
    /\ UnitsAtRest
    /\ call_arg \in [input : EscapeInputs, malloc_ok : BOOLEAN]
    /\ call_res = <<>>

\* a call of html_escape
HtmlEscape ==
    /\ call_res = <<>>
    /\ call_res' = <<html_escape(call_arg.input, call_arg.malloc_ok)>>
    /\ UNCHANGED call_arg
    /\ DeviceStill
    /\ UNCHANGED units

EscapeNext == HtmlEscape

EscapeSpec == EscapeInit /\ [][EscapeNext]_vars

\* the entity of a byte that has one
EntityOf(c) ==
    CASE c = "&" -> <<"&", "a", "m", "p", ";">>
      [] c = "<" -> <<"&", "l", "t", ";">>
      [] c = ">" -> <<"&", "g", "t", ";">>
      [] c = "\"" -> <<"&", "q", "u", "o", "t", ";">>
      [] c = "'" -> <<"&", "#", "3", "9", ";">>

RECURSIVE EntitiesFor(_)

\* s with each of & < > " ' replaced by its entity
EntitiesFor(s) ==
    IF s = <<>> THEN <<>>
    ELSE (IF Head(s) \in {"&", "<", ">", "\"", "'"} THEN EntityOf(Head(s))
          ELSE <<Head(s)>>) \o EntitiesFor(Tail(s))

\* s holds the beginning of a raw "<script"
HasScriptTag(s) ==
    \E i \in 1..(Len(s) - 1) : s[i] = "<" /\ s[i + 1] = "s"

\* C39: the string html_escape returns is its input with each of & < > " '
\* replaced by its entity and every other byte unchanged, and so holds no
\* raw "<script", nor any byte of < > " '; for NULL it is the empty string;
\* it returns no string only where malloc returns no memory
C39_HtmlEscapeReplacesEveryMarkupByte ==
    call_res # <<>> =>
        /\ call_arg.malloc_ok => call_res[1] # NULLSTR
        /\ (call_res[1] # NULLSTR /\ call_arg.input = NULLSTR)
               => call_res[1] = EMPTYSTR
        /\ (call_res[1] # NULLSTR /\ call_arg.input # NULLSTR)
               => /\ call_res[1] = EntitiesFor(call_arg.input)
                  /\ ~HasScriptTag(call_res[1])
                  /\ \A i \in 1..Len(call_res[1]) :
                         call_res[1][i] \notin {"<", ">", "\"", "'"}

\* a string with a script tag and an ampersand has been escaped
C39_Witness ==
    /\ call_res # <<>>
    /\ call_arg.input # NULLSTR
    /\ HasScriptTag(call_arg.input)
    /\ \E i \in 1..Len(call_arg.input) : call_arg.input[i] = "&"
    /\ call_res[1] # NULLSTR
    /\ Len(call_res[1]) > Len(call_arg.input)

====
